---- MODULE Spec2Model ----
(***************************************************************************)
(* SK-G sales-performance panel: the derivation engine of the five         *)
(* snapshots of the application kept in the repository.                    *)
(*                                                                         *)
(*   v26  src/App.tsx 1-620            db = {revenue, operational, t20}    *)
(*   v12  src/App.tsx 623-1078         actualData, clientProjections, AI   *)
(*   p2   src/unnamed/part_002         actualData, clientProjections, AI   *)
(*   v17  src/unnamed/part_003 1-524   actualData, opData, projections     *)
(*   v23  src/unnamed/part_003 527-1017 db = {revenue, operational, t20}   *)
(*                                                                         *)
(* Numbers are JavaScript numbers restricted to exact rationals plus NaN   *)
(* and the infinities: [k, n, d] with k = "fin" for n/d in lowest terms.   *)
(* Texts are sequences of one-character strings.                           *)
(***************************************************************************)
EXTENDS Integers, Sequences, FiniteSets, TLC

VARIABLES
    variant,        \* which snapshot of the application is running
    store,          \* localStorage: section -> stored item
    db,             \* the hydrated snapshot: revenue, operational, projections
    selectedYear,   \* useState selectedYear
    status,         \* "boot" before mount, "ok" mounted, "crashed" after an uncaught error
    edits,          \* number of user edits made so far (bounded by MaxEdits)
    text,           \* normalizer harness: content of the edit field
    num,            \* normalizer harness: number stored by the last edit
    shown,          \* normalizer harness: number stored by the edit before it
    npc,            \* harness position: type/store/show loop, or table/analysed
    clients,        \* the client table the analysis is computed from
    analysis,       \* client-analysis harness: the analysis computed last
    selectedMonth,  \* useState selectedMonth (part_002)
    isConsulting,   \* useState isConsulting (v12, part_002)
    dailyReport,    \* useState dailyReport (v12, part_002)
    inFlight,       \* advisory requests sent and not yet settled
    insight,        \* localStorage item skg_bi_v12_insight (v12)
    memo            \* useMemo: per memoized view, the dependencies and the values read
                    \* when it was last computed

vars == <<variant, store, db, selectedYear, status, edits, text, num, shown, npc,
          clients, analysis, selectedMonth, isConsulting, dailyReport, inFlight,
          insight, memo>>

appVars == <<variant, store, db, selectedYear, status, edits, memo>>
normVars == <<text, num, shown, npc>>
tblVars == <<clients, analysis>>
uiVars == <<selectedMonth, isConsulting, dailyReport, inFlight, insight>>

(***************************************************************************)
(* Bounds of the model.                                                    *)
(***************************************************************************)
MaxLen == 4
MaxEdits == 2

(***************************************************************************)
(* JavaScript numbers.                                                     *)
(***************************************************************************)
RECURSIVE Gcd(_, _)
Gcd(a, b) == IF b = 0 THEN a ELSE Gcd(b, a % b)

Abs(x) == IF x < 0 THEN -x ELSE x

NaN == [k |-> "nan", n |-> 0, d |-> 1]
PosInf == [k |-> "inf", n |-> 1, d |-> 1]
NegInf == [k |-> "inf", n |-> -1, d |-> 1]

\* the rational n/d (d # 0) in lowest terms with a positive denominator
Rat(n, d) ==
    IF d = 1 THEN [k |-> "fin", n |-> n, d |-> 1]
    ELSE LET g == Gcd(Abs(n), Abs(d))
             s == IF d < 0 THEN -1 ELSE 1
         IN  [k |-> "fin", n |-> s * (n \div g), d |-> s * (d \div g)]

Num(i) == [k |-> "fin", n |-> i, d |-> 1]
Zero == Num(0)

IsNaN(x) == x.k = "nan"
IsFin(x) == x.k = "fin"
Sign(x) == IF x.n > 0 THEN 1 ELSE IF x.n < 0 THEN -1 ELSE 0

\* a + b
JAdd(a, b) ==
    IF IsNaN(a) \/ IsNaN(b) THEN NaN
    ELSE IF ~IsFin(a) /\ ~IsFin(b) THEN (IF a.n = b.n THEN a ELSE NaN)
    ELSE IF ~IsFin(a) THEN a
    ELSE IF ~IsFin(b) THEN b
    ELSE IF a.d = b.d THEN Rat(a.n + b.n, a.d)
    ELSE LET g == Gcd(a.d, b.d)
         IN  Rat(a.n * (b.d \div g) + b.n * (a.d \div g), (a.d \div g) * b.d)

\* -a
JNeg(a) == IF IsNaN(a) THEN NaN ELSE [a EXCEPT !.n = -a.n]

\* a - b
JSub(a, b) == JAdd(a, JNeg(b))

\* a * b
JMul(a, b) ==
    IF IsNaN(a) \/ IsNaN(b) THEN NaN
    ELSE IF ~IsFin(a) \/ ~IsFin(b)
         THEN (IF Sign(a) * Sign(b) = 0 THEN NaN
               ELSE IF Sign(a) * Sign(b) > 0 THEN PosInf ELSE NegInf)
    ELSE IF a.d = 1 /\ b.d = 1 THEN Num(a.n * b.n)
    ELSE LET g1 == Gcd(Abs(a.n), b.d)
             g2 == Gcd(Abs(b.n), a.d)
         IN  Rat((a.n \div g1) * (b.n \div g2), (a.d \div g2) * (b.d \div g1))

\* a / b: 0/0 is NaN and x/0 an infinity, as in IEEE 754
JDiv(a, b) ==
    IF IsNaN(a) \/ IsNaN(b) THEN NaN
    ELSE IF ~IsFin(a) /\ ~IsFin(b) THEN NaN
    ELSE IF ~IsFin(a) THEN (IF Sign(a) * (IF b.n < 0 THEN -1 ELSE 1) > 0 THEN PosInf ELSE NegInf)
    ELSE IF ~IsFin(b) THEN Zero
    ELSE IF b.n = 0
         THEN (IF a.n = 0 THEN NaN ELSE IF a.n > 0 THEN PosInf ELSE NegInf)
    ELSE LET g1 == Gcd(Abs(a.n), Abs(b.n))
             g2 == Gcd(a.d, b.d)
         IN  Rat((a.n \div g1) * (b.d \div g2), (a.d \div g2) * (b.n \div g1))

\* a < b, false as soon as one side is NaN
JLt(a, b) ==
    IF IsNaN(a) \/ IsNaN(b) THEN FALSE
    ELSE IF ~IsFin(a) THEN a.n < 0 /\ ~(b.k = "inf" /\ b.n < 0)
    ELSE IF ~IsFin(b) THEN b.n > 0
    ELSE IF a.d = b.d THEN a.n < b.n
    ELSE IF Sign(a) # Sign(b) THEN Sign(a) < Sign(b)
    ELSE LET g == Gcd(a.d, b.d)
         IN  a.n * (b.d \div g) < b.n * (a.d \div g)

JGt(a, b) == JLt(b, a)
\* a === b on numbers: NaN is equal to nothing
JEq(a, b) == ~IsNaN(a) /\ ~IsNaN(b) /\ a = b
JLe(a, b) == JLt(a, b) \/ JEq(a, b)

\* truthiness of a number: 0 and NaN are falsy
Truthy(x) == ~IsNaN(x) /\ ~(IsFin(x) /\ x.n = 0)
\* x || 0 on a number
OrZero(x) == IF Truthy(x) THEN x ELSE Zero

(***************************************************************************)
(* Texts: the characters a user can type into an edit field.               *)
(***************************************************************************)
Alphabet == {"0", "1", "5", ",", ".", "$", " ", "-", "a"}

Digits == <<"0", "1", "2", "3", "4", "5", "6", "7", "8", "9">>
IsDigit(c) == c \in {"0", "1", "2", "3", "4", "5", "6", "7", "8", "9"}
DigitVal(c) == CHOOSE i \in 0..9 : Digits[i + 1] = c

RECURSIVE TextsOfLen(_)
TextsOfLen(n) ==
    IF n = 0 THEN {<<>>}
    ELSE {Append(s, c) : s \in TextsOfLen(n - 1), c \in Alphabet}

Texts == UNION {TextsOfLen(n) : n \in 0..MaxLen}

RECURSIVE Pow10(_)
Pow10(e) == IF e = 0 THEN 1 ELSE 10 * Pow10(e - 1)

\* value.replace(/[R$\s.]/g, ''): every currency sign, blank and point is removed
StripClass == {"R", "$", " ", "."}
StripAll(s) == SelectSeq(s, LAMBDA c : c \notin StripClass)

\* .replace(',', '.'): a string pattern replaces the first occurrence only
RECURSIVE ReplaceFirstComma(_)
ReplaceFirstComma(s) ==
    IF s = <<>> THEN <<>>
    ELSE IF Head(s) = "," THEN <<".">> \o Tail(s)
    ELSE <<Head(s)>> \o ReplaceFirstComma(Tail(s))

\* the longest prefix of s made of digits
RECURSIVE DigitPrefix(_)
DigitPrefix(s) ==
    IF s = <<>> \/ ~IsDigit(Head(s)) THEN <<>>
    ELSE <<Head(s)>> \o DigitPrefix(Tail(s))

RECURSIVE DigitsToNat(_)
DigitsToNat(s) ==
    IF s = <<>> THEN 0
    ELSE 10 * DigitsToNat(SubSeq(s, 1, Len(s) - 1)) + DigitVal(s[Len(s)])

RECURSIVE SkipBlanks(_)
SkipBlanks(s) == IF s # <<>> /\ Head(s) = " " THEN SkipBlanks(Tail(s)) ELSE s

\* parseFloat: blanks, a sign, then the longest prefix digits [. digits]; NaN
\* when that prefix holds no digit.  What follows the prefix is ignored.
ParseFloat(s) ==
    LET t == SkipBlanks(s)
        neg == t # <<>> /\ Head(t) = "-"
        u == IF t # <<>> /\ Head(t) \in {"-", "+"} THEN Tail(t) ELSE t
        ip == DigitPrefix(u)
        r == SubSeq(u, Len(ip) + 1, Len(u))
        fp == IF r # <<>> /\ Head(r) = "." THEN DigitPrefix(Tail(r)) ELSE <<>>
        mag == Rat(DigitsToNat(ip \o fp), Pow10(Len(fp)))
    IN  IF ip = <<>> /\ fp = <<>> THEN NaN
        ELSE IF neg THEN JNeg(mag) ELSE mag

\* parseFloat(value.replace(/[R$\s.]/g, '').replace(',', '.')) || 0
NormalizeInline(value) == OrZero(ParseFloat(ReplaceFirstComma(StripAll(value))))

\* parseNum of part_002
parseNum(val) ==
    LET clean == ReplaceFirstComma(StripAll(val))
    IN  IF IsNaN(ParseFloat(clean)) THEN Zero ELSE ParseFloat(clean)

Variants == {"v26", "v12", "p2", "v17", "v23"}

\* the normalizer each snapshot of the application routes an edit through
Normalize(v, value) == IF v = "p2" THEN parseNum(value) ELSE NormalizeInline(value)

\* String(x) of a finite number with a terminating decimal expansion
RECURSIVE NatToText(_)
NatToText(i) ==
    IF i < 10 THEN <<Digits[i + 1]>>
    ELSE NatToText(i \div 10) \o <<Digits[(i % 10) + 1]>>

RECURSIVE FracText(_, _)
FracText(r, d) ==
    IF r = 0 THEN <<>>
    ELSE <<Digits[((10 * r) \div d) + 1]>> \o FracText((10 * r) % d, d)

NumberToString(x) ==
    LET a == Abs(x.n)
        ip == NatToText(a \div x.d)
        fp == FracText(a % x.d, x.d)
    IN  (IF x.n < 0 THEN <<"-">> ELSE <<>>) \o ip
        \o (IF fp = <<>> THEN <<>> ELSE <<".">> \o fp)

\* value={String(row[s.id] || '')}: what the edit field shows for a stored number
FieldText(x) == IF Truthy(x) THEN NumberToString(x) ELSE <<>>

\* the integer part grouped by three with points, as the pt-BR locale writes it
RECURSIVE GroupThousands(_)
GroupThousands(ds) ==
    IF Len(ds) <= 3 THEN ds
    ELSE GroupThousands(SubSeq(ds, 1, Len(ds) - 3)) \o <<".">>
         \o SubSeq(ds, Len(ds) - 2, Len(ds))

\* x.toLocaleString('pt-BR') for x > 0: at most three fraction digits (rounded
\* half up), a decimal comma, points between the thousands
ToLocaleStringBR(x) ==
    LET milli == (2000 * x.n + x.d) \div (2 * x.d)
        r == Rat(milli, 1000)
        ip == GroupThousands(NatToText(r.n \div r.d))
        fp == FracText(r.n % r.d, r.d)
    IN  ip \o (IF fp = <<>> THEN <<>> ELSE <<",">> \o fp)

\* part_002: value={actual[k] > 0 ? actual[k].toLocaleString('pt-BR') : ''}
FieldTextP2(x) == IF JGt(x, Zero) THEN ToLocaleStringBR(x) ELSE <<>>

\* the text the controlled edit field of a snapshot shows for a stored number
Shown(v, x) == IF v = "p2" THEN FieldTextP2(x) ELSE FieldText(x)

(***************************************************************************)
(* The normalizer harness: a text is typed, normalized into the snapshot,  *)
(* shown back in the controlled field, and normalized again by the next    *)
(* change event that carries the shown text.                               *)
(***************************************************************************)
InitNorm ==
    /\ variant \in {"v26", "p2"}
    /\ store = <<>>
    /\ db = <<>>
    /\ selectedYear = "2026"
    /\ status = "boot"
    /\ edits = 0
    /\ text \in Texts
    /\ num = Zero
    /\ shown = Zero
    /\ npc = "typed"
    /\ clients = <<>>
    /\ analysis = <<>>
    /\ selectedMonth = "Jan"
    /\ isConsulting = FALSE
    /\ dailyReport = "none"
    /\ inFlight = 0
    /\ insight = "none"
    /\ memo = <<>>

NormInput ==
    /\ npc = "typed"
    /\ num' = Normalize(variant, text)
    /\ npc' = "stored"
    /\ UNCHANGED <<text, shown>>
    /\ UNCHANGED appVars
    /\ UNCHANGED tblVars
    /\ UNCHANGED uiVars

NormShow ==
    /\ npc = "stored"
    /\ text' = Shown(variant, num)
    /\ shown' = num
    /\ npc' = "shown"
    /\ UNCHANGED num
    /\ UNCHANGED appVars
    /\ UNCHANGED tblVars
    /\ UNCHANGED uiVars

NormAgain ==
    /\ npc = "shown"
    /\ num' = Normalize(variant, text)
    /\ npc' = "again"
    /\ UNCHANGED <<text, shown>>
    /\ UNCHANGED appVars
    /\ UNCHANGED tblVars
    /\ UNCHANGED uiVars

NextNorm == NormInput \/ NormShow \/ NormAgain

SpecNorm == InitNorm /\ [][NextNorm]_vars

(***************************************************************************)
(* Static reference tables (src/constants.ts, src/unnamed/part_000).       *)
(***************************************************************************)
MONTHS == <<"Jan", "Fev", "Mar", "Abr", "Mai", "Jun",
            "Jul", "Ago", "Set", "Out", "Nov", "Dez">>
YEARS == <<"2026", "2027", "2028", "2029", "2030">>
HISTORICAL_YEARS == <<"2021", "2022", "2023", "2024", "2025">>

INDIVIDUAL_METAS ==
    [syllas |-> [Jan |-> 118500, Fev |-> 138000, Mar |-> 100000, Abr |-> 98000,
                 Mai |-> 94000, Jun |-> 89000, Jul |-> 103000, Ago |-> 116000,
                 Set |-> 128000, Out |-> 136000, Nov |-> 144000, Dez |-> 125000],
     v1 |-> [Jan |-> 24000, Fev |-> 28000, Mar |-> 42000, Abr |-> 43000,
             Mai |-> 44000, Jun |-> 44000, Jul |-> 42000, Ago |-> 40000,
             Set |-> 39000, Out |-> 38000, Nov |-> 37000, Dez |-> 40000],
     v2 |-> [Jan |-> 0, Fev |-> 26000, Mar |-> 26000, Abr |-> 27000,
             Mai |-> 27000, Jun |-> 27000, Jul |-> 42000, Ago |-> 40000,
             Set |-> 39000, Out |-> 38000, Nov |-> 37000, Dez |-> 40000],
     v3 |-> [Jan |-> 0, Fev |-> 0, Mar |-> 0, Abr |-> 0, Mai |-> 0, Jun |-> 0,
             Jul |-> 0, Ago |-> 0, Set |-> 0, Out |-> 0, Nov |-> 0, Dez |-> 0]]

TARGET_GOALS ==
    [i \in 1..Len(MONTHS) |->
        LET m == MONTHS[i]
        IN  [month |-> m,
             syllas |-> INDIVIDUAL_METAS.syllas[m],
             v1 |-> INDIVIDUAL_METAS.v1[m],
             v2 |-> INDIVIDUAL_METAS.v2[m],
             v3 |-> INDIVIDUAL_METAS.v3[m],
             total |-> INDIVIDUAL_METAS.syllas[m] + INDIVIDUAL_METAS.v1[m]
                       + INDIVIDUAL_METAS.v2[m] + INDIVIDUAL_METAS.v3[m]]]

SELLERS == <<"syllas", "v1", "v2", "v3">>
OP_FIELDS == <<"zm", "terceiro", "correios", "mercadoria">>

Range(f) == {f[i] : i \in DOMAIN f}

\* number of rows of HISTORICAL_TOP_CLIENTS the model keeps
NClients == 2

\* HISTORICAL_TOP_CLIENTS of constants.ts: one pre-aggregated 2021-2025 sum per client
AggregateClients ==
    <<[id |-> "c1", history |-> [aggregate |-> Rat(165113413, 100)]],
      [id |-> "c2", history |-> [aggregate |-> Rat(34558094, 100)]],
      [id |-> "c3", history |-> [aggregate |-> Rat(40951519, 100)]],
      [id |-> "c4", history |-> [aggregate |-> Rat(12269035, 100)]]>>

PerYear(a, b, c, d, e) ==
    [y \in Range(HISTORICAL_YEARS) |->
        Num(CASE y = "2021" -> a [] y = "2022" -> b [] y = "2023" -> c
              [] y = "2024" -> d [] OTHER -> e)]

\* HISTORICAL_TOP_CLIENTS of part_000: one value per historical year per client
PerYearClients ==
    <<[id |-> "c1", history |-> PerYear(284869, 50161, 104303, 135998, 57016)],
      [id |-> "c2", history |-> PerYear(62158, 99953, 245829, 560605, 786692)],
      [id |-> "c3", history |-> PerYear(143580, 126538, 52269, 16275, 18309)],
      [id |-> "c4", history |-> PerYear(82418, 77266, 105537, 121464, 123748)]>>

\* the client table a snapshot of the application is built against
HISTORICAL_TOP_CLIENTS(v) ==
    SubSeq(IF v \in {"v26", "v23"} THEN AggregateClients ELSE PerYearClients,
           1, NClients)

ClientIds(v) == {HISTORICAL_TOP_CLIENTS(v)[i].id : i \in 1..NClients}

(***************************************************************************)
(* JavaScript objects: functions from keys to values.  A missing key reads *)
(* as undefined; null is kept apart from the empty object.                 *)
(***************************************************************************)
EmptyObj == [k \in {} |-> Zero]
NullV == [isNull |-> TRUE]
UndefV == [isUndef |-> TRUE]
IsNull(x) == DOMAIN x = {"isNull"}
IsUndef(x) == DOMAIN x = {"isUndef"}
IsNullish(x) == IsNull(x) \/ IsUndef(x)

\* o[k]
Prop(o, k) == IF k \in DOMAIN o THEN o[k] ELSE UndefV
\* { ...a, ...b }: spreading null or undefined adds nothing
Own(x) == IF IsNullish(x) THEN EmptyObj ELSE x
Spread(a, b) ==
    [k \in DOMAIN Own(a) \cup DOMAIN Own(b) |->
        IF k \in DOMAIN Own(b) THEN Own(b)[k] ELSE Own(a)[k]]
\* { ...o, [k]: x }
With(o, k, x) ==
    [j \in DOMAIN Own(o) \cup {k} |-> IF j = k THEN x ELSE Own(o)[j]]
\* x || y on objects
OrElse(x, y) == IF IsNullish(x) THEN y ELSE x
\* Number(x) on a leaf
ToNumber(x) == IF IsUndef(x) THEN NaN ELSE IF IsNull(x) THEN Zero ELSE x

(***************************************************************************)
(* The zero-filled skeleton.                                               *)
(***************************************************************************)
ZeroSellers == [s \in Range(SELLERS) |-> Zero]
ZeroOp == [f \in Range(OP_FIELDS) |-> Zero]

initialRevenue == [y \in Range(YEARS) |-> [m \in Range(MONTHS) |-> ZeroSellers]]
initialOp == [y \in Range(YEARS) |-> [m \in Range(MONTHS) |-> ZeroOp]]

\* the plannable years a projection row is created with
ProjectionYears(v) ==
    IF v \in {"v17", "v23"} THEN {"2026", "2027", "2028"} ELSE Range(YEARS)

initialT20(v) == [c \in ClientIds(v) |-> [y \in ProjectionYears(v) |-> Zero]]

HasOperational(v) == v \in {"v26", "v17", "v23"}
SingleKey(v) == v \in {"v26", "v23"}

Skeleton(v) ==
    [revenue |-> initialRevenue,
     operational |-> IF HasOperational(v) THEN initialOp ELSE EmptyObj,
     projections |-> initialT20(v)]

(***************************************************************************)
(* localStorage.  An item is absent, the empty string, a text that is not  *)
(* JSON, or a JSON text (kept as the value it parses to).                  *)
(***************************************************************************)
Absent == [kind |-> "absent", v |-> EmptyObj]
EmptyText == [kind |-> "empty", v |-> EmptyObj]
Corrupt == [kind |-> "corrupt", v |-> EmptyObj]
Json(x) == [kind |-> "json", v |-> x]

StoreKeys(v) ==
    IF SingleKey(v) THEN {"db"}
    ELSE IF v = "v17" THEN {"revenue", "operational", "projections"}
    ELSE {"revenue", "projections"}

\* if (saved): null and '' are falsy
Saved(item) == item.kind \in {"corrupt", "json"}
\* JSON.parse(saved) throws a SyntaxError
ParseThrows(item) == item.kind = "corrupt"

\* db initializer of v26 (and of v23, same code): try { parse, merge per section }
\* catch { warn }, else the skeleton
dbInitializer(v, st) ==
    LET saved == st["db"]
    IN  IF Saved(saved) /\ ~ParseThrows(saved)
        THEN [revenue |-> Spread(initialRevenue, Prop(saved.v, "revenue")),
              operational |-> Spread(initialOp, Prop(saved.v, "operational")),
              projections |-> Spread(initialT20(v), Prop(saved.v, "projections"))]
        ELSE Skeleton(v)

\* actualData initializer of v12 (and of v17): { ...initial, ...JSON.parse(saved) }
actualDataInitializer(st) ==
    LET saved == st["revenue"]
    IN  IF Saved(saved) /\ ~ParseThrows(saved)
        THEN Spread(initialRevenue, saved.v) ELSE initialRevenue

\* opData initializer of v17
opDataInitializer(st) ==
    LET saved == st["operational"]
    IN  IF Saved(saved) /\ ~ParseThrows(saved)
        THEN Spread(initialOp, saved.v) ELSE initialOp

\* clientProjections initializer of v12 (and of v17, with three years)
clientProjectionsInitializer(v, st) ==
    LET saved == st["projections"]
    IN  IF Saved(saved) /\ ~ParseThrows(saved)
        THEN Spread(initialT20(v), saved.v) ELSE initialT20(v)

\* actualData initializer of part_002: if (saved) return JSON.parse(saved)
actualDataInitializerP2(st) ==
    LET saved == st["revenue"]
    IN  IF Saved(saved) THEN saved.v ELSE initialRevenue

\* clientProjections initializer of part_002
clientProjectionsInitializerP2(st) ==
    LET saved == st["projections"]
    IN  IF Saved(saved) THEN saved.v ELSE initialT20("p2")

\* part_002 parses outside any try block: a text that is not JSON throws
InitializerThrowsP2(st) ==
    \E key \in {"revenue", "projections"} : Saved(st[key]) /\ ParseThrows(st[key])

\* the snapshot the useState initializers return
Hydrate(v, st) ==
    CASE SingleKey(v) -> dbInitializer(v, st)
      [] v = "v12" -> [revenue |-> actualDataInitializer(st),
                       operational |-> EmptyObj,
                       projections |-> clientProjectionsInitializer(v, st)]
      [] v = "v17" -> [revenue |-> actualDataInitializer(st),
                       operational |-> opDataInitializer(st),
                       projections |-> clientProjectionsInitializer(v, st)]
      [] OTHER -> [revenue |-> actualDataInitializerP2(st),
                   operational |-> EmptyObj,
                   projections |-> clientProjectionsInitializerP2(st)]

HydrateThrows(v, st) == v = "p2" /\ InitializerThrowsP2(st)

(***************************************************************************)
(* Persisted payloads the application can find at start-up: none, an       *)
(* empty or unparsable text, or JSON that lacks a section, a year, a month *)
(* of a year or a field of a month, or holds null for a year or a month.   *)
(***************************************************************************)
Without(o, k) == [j \in DOMAIN o \ {k} |-> o[j]]

RevenuePayloads ==
    LET jan == initialRevenue["2026"]["Jan"]
        yr == initialRevenue["2026"]
    IN  {\* every year, month and field, one of them not zero
         With(initialRevenue, "2026", With(yr, "Jan", With(jan, "v1", Num(12000)))),
         \* no 2027, no December 2026, no v3 in January 2026
         Without(With(initialRevenue, "2026",
                      Without(With(yr, "Jan", Without(jan, "v3")), "Dez")), "2027"),
         \* null for a year, null for a month
         With(initialRevenue, "2026", NullV),
         With(initialRevenue, "2026", With(yr, "Jan", NullV)),
         \* an entry of the year that is not one of the twelve months
         With(initialRevenue, "2026", With(yr, "Total", With(jan, "syllas", Num(90))))}

OpPayloads ==
    LET jan == initialOp["2026"]["Jan"]
        yr == initialOp["2026"]
    IN  <<With(initialOp, "2026", With(yr, "Jan", With(jan, "zm", Num(3)))),
          With(initialOp, "2026", With(yr, "Jan", Without(jan, "zm"))),
          With(initialOp, "2026", NullV)>>

ProjectionPayloads(v) ==
    LET c == HISTORICAL_TOP_CLIENTS(v)[1].id
    IN  <<With(initialT20(v), c, With(initialT20(v)[c], "2026", Num(500))),
          Without(initialT20(v), c),
          With(initialT20(v), c, Without(initialT20(v)[c], "2026"))>>

\* the JSON documents of the single-key snapshots (v26, v23)
DbPayloads(v) ==
    {[revenue |-> r] : r \in RevenuePayloads}
    \cup {[operational |-> OpPayloads[i], projections |-> ProjectionPayloads(v)[i]] :
            i \in 1..3}

AllItems(v, item) == [key \in StoreKeys(v) |-> item]

InitialStores(v) ==
    {AllItems(v, Absent), AllItems(v, EmptyText), AllItems(v, Corrupt)}
    \cup IF SingleKey(v)
         THEN {[db |-> Json(doc)] : doc \in DbPayloads(v)}
         ELSE {[AllItems(v, Absent) EXCEPT !["revenue"] = Json(r)] :
                  r \in RevenuePayloads}
              \cup {[AllItems(v, Absent) EXCEPT !["projections"] = Json(q)] :
                      q \in Range(ProjectionPayloads(v))}
              \cup IF v = "v17"
                   THEN {[AllItems(v, Absent) EXCEPT !["operational"] = Json(o)] :
                           o \in Range(OpPayloads)}
                   ELSE {}

(***************************************************************************)
(* JSON.stringify: numbers that are not finite are written as null.        *)
(***************************************************************************)
IsNumber(x) == "k" \in DOMAIN x

RECURSIVE Stringified(_)
Stringified(x) ==
    IF IsNull(x) THEN NullV
    ELSE IF IsNumber(x) THEN (IF IsFin(x) THEN x ELSE NullV)
    ELSE [key \in DOMAIN x |-> Stringified(x[key])]

\* localStorage.setItem(key, JSON.stringify(value)) for every key of the snapshot
Persisted_NoProjections(v, d) ==
    IF SingleKey(v)
    THEN [db |-> Json(Stringified([revenue |-> d.revenue,
                                   operational |-> d.operational]))]
    ELSE [key \in StoreKeys(v) |->
            IF key = "projections" THEN Absent ELSE Json(Stringified(d[key]))]
Persisted(v, d) ==
    IF SingleKey(v)
    THEN [db |-> Json(Stringified(d))]
    ELSE [key \in StoreKeys(v) |-> Json(Stringified(d[key]))]

(***************************************************************************)
(* Edit handlers.                                                          *)
(***************************************************************************)
\* texts typed into an edit field, months and years a user edits or selects
EditTexts == {<<"7">>, <<"-", "1", ",", "5">>, <<>>}
EditMonths == {"Jan", "Dez"}
EditSellers == {"v1", "v3"}
EditOpFields == {"zm", "mercadoria"}
YearChoices == {"2026", "2027"}
MonthChoices == {"Jan", "Dez"}

\* useState(MONTHS[new Date().getMonth()] || 'Jan') of part_002: the month of the
\* day the page is opened; the other snapshots keep no selected month
StartMonths(v) == IF v = "p2" THEN MonthChoices ELSE {"Jan"}

\* handleRevenueInput of v26 and v23, handleInputChange of part_002:
\* prev.revenue[selectedYear][month] is read without a guard
handleRevenueInput(rev, year, month, seller, n) ==
    With(rev, year,
         With(Prop(rev, year), month,
              With(Prop(Prop(rev, year), month), seller, n)))

\* ... and throws a TypeError when the year entry is null or missing
handleRevenueInputThrows(rev, year) == IsNullish(Prop(rev, year))

\* handleInputChange of v12 and v17: every level falls back to a default
handleInputChange(rev, year, month, seller, n) ==
    With(rev, year,
         With(OrElse(Prop(rev, year), EmptyObj), month,
              With(OrElse(Prop(Prop(rev, year), month), ZeroSellers), seller, n)))

\* handleOpInput of v26 and v23
handleOpInput(op, year, month, field, n) ==
    With(op, year,
         With(Prop(op, year), month,
              With(Prop(Prop(op, year), month), field, n)))

handleOpInputThrows(op, year) == IsNullish(Prop(op, year))

\* handleOpChange of v17
handleOpChange(op, year, month, field, n) ==
    With(op, year,
         With(OrElse(Prop(op, year), EmptyObj), month,
              With(OrElse(Prop(Prop(op, year), month), ZeroOp), field, n)))

\* handleT20Input, handleClientValueChange and the inline projection handlers
handleT20Input(proj, clientId, year, n) ==
    With(proj, clientId, With(Prop(proj, clientId), year, n))

\* the years whose projection a snapshot of the application lets the user edit
ProjectionEditYears(v, selYear) ==
    CASE v = "v26" -> {selYear}
      [] v = "v12" -> {"2026"}
      [] v = "p2" -> Range(YEARS)
      [] OTHER -> {"2026", "2027", "2028"}

UnguardedEdits(v) == v \in {"v26", "v23", "p2"}

(***************************************************************************)
(* Derived views: the monthly series with its cumulative and quarterly     *)
(* roll-ups, and the client analysis.                                      *)
(***************************************************************************)
\* Number(entry[k]) || 0
NumberOrZero(entry, k) == OrZero(ToNumber(Prop(entry, k)))

\* realMes: (Number(actual.syllas) || 0) + ... + (Number(actual.v3) || 0)
realMes(actual) ==
    JAdd(JAdd(JAdd(NumberOrZero(actual, "syllas"), NumberOrZero(actual, "v1")),
              NumberOrZero(actual, "v2")),
         NumberOrZero(actual, "v3"))

\* real of part_002: actual.syllas + actual.v1 + actual.v2 + actual.v3
real(actual) ==
    JAdd(JAdd(JAdd(ToNumber(Prop(actual, "syllas")), ToNumber(Prop(actual, "v1"))),
              ToNumber(Prop(actual, "v2"))),
         ToNumber(Prop(actual, "v3")))

\* actualData[selectedYear] || {}
currentYearActuals(rev, year) == OrElse(Prop(rev, year), EmptyObj)

\* currentYearActuals[month] || { syllas: 0, v1: 0, v2: 0, v3: 0 }
MonthActual(rev, year, month) ==
    OrElse(Prop(currentYearActuals(rev, year), month), ZeroSellers)

\* the monthly series every snapshot of the application derives for the selected year
monthlyData(v, rev, year) ==
    [i \in 1..Len(MONTHS) |->
        LET actual == MonthActual(rev, year, TARGET_GOALS[i].month)
        IN  [month |-> TARGET_GOALS[i].month,
             meta |-> Num(TARGET_GOALS[i].total),
             realizado |-> IF v = "p2" THEN real(actual) ELSE realMes(actual)]]

totalMetaAnual == 2180000

\* runningTotalRealizado of v12 after the i-th goal of TARGET_GOALS.map
RECURSIVE runningTotalRealizado(_, _, _)
runningTotalRealizado_Reset(rev, year, i) ==
    IF i = 0 THEN Zero
    ELSE realMes(MonthActual(rev, year, TARGET_GOALS[i].month))
runningTotalRealizado(rev, year, i) ==
    IF i = 0 THEN Zero
    ELSE JAdd(runningTotalRealizado(rev, year, i - 1),
              realMes(MonthActual(rev, year, TARGET_GOALS[i].month)))

RECURSIVE runningTotalMeta(_)
runningTotalMeta(i) ==
    IF i = 0 THEN 0 ELSE runningTotalMeta(i - 1) + TARGET_GOALS[i].total

QUARTERS_Overlapping ==
    <<[name |-> "Q1", months |-> <<"Jan", "Fev", "Mar">>],
      [name |-> "Q2", months |-> <<"Mar", "Abr", "Mai">>],
      [name |-> "Q3", months |-> <<"Jul", "Ago", "Set">>],
      [name |-> "Q4", months |-> <<"Out", "Nov", "Dez">>]>>
QUARTERS ==
    <<[name |-> "Q1", months |-> <<"Jan", "Fev", "Mar">>],
      [name |-> "Q2", months |-> <<"Abr", "Mai", "Jun">>],
      [name |-> "Q3", months |-> <<"Jul", "Ago", "Set">>],
      [name |-> "Q4", months |-> <<"Out", "Nov", "Dez">>]>>

\* TARGET_GOALS.filter(g => q.months.includes(g.month)).reduce((acc, g) => acc + g.total, 0)
RECURSIVE qMeta(_, _)
qMeta(months, i) ==
    IF i = 0 THEN 0
    ELSE qMeta(months, i - 1)
         + IF TARGET_GOALS[i].month \in Range(months) THEN TARGET_GOALS[i].total ELSE 0

\* q.months.reduce((acc, m) => acc + realMes of m, 0)
RECURSIVE qReal(_, _, _, _)
qReal(rev, year, months, i) ==
    IF i = 0 THEN Zero
    ELSE JAdd(qReal(rev, year, months, i - 1),
              realMes(MonthActual(rev, year, months[i])))

quarterlyData(rev, year) ==
    [j \in 1..Len(QUARTERS) |->
        LET q == QUARTERS[j]
            meta == qMeta(q.months, Len(MONTHS))
            realizado == qReal(rev, year, q.months, Len(q.months))
        IN  [name |-> q.name,
             meta |-> Num(meta),
             realizado |-> realizado,
             percentage |-> IF meta > 0
                            THEN JMul(JDiv(realizado, Num(meta)), Num(100))
                            ELSE Zero]]

\* biMetrics of v12
biMetrics(rev, year) ==
    [monthlyData |->
        [i \in 1..Len(MONTHS) |->
            [month |-> TARGET_GOALS[i].month,
             meta |-> Num(TARGET_GOALS[i].total),
             realizado |-> realMes(MonthActual(rev, year, TARGET_GOALS[i].month)),
             acumuladoReal |-> runningTotalRealizado(rev, year, i),
             acumuladoMeta |-> Num(runningTotalMeta(i))]],
     quarterlyData |-> quarterlyData(rev, year),
     totalRealizado |-> runningTotalRealizado(rev, year, Len(MONTHS)),
     totalMeta |-> Num(totalMetaAnual),
     overallPercentage |->
        JMul(JDiv(runningTotalRealizado(rev, year, Len(MONTHS)), Num(totalMetaAnual)),
             Num(100))]

\* biMetrics of v26, v17 and v23: atingimento = (totalRealizado / metaAnualFixa) * 100,
\* totalRealizado being the sum of realMes over the twelve months
metaAnualFixa == 2180000

atingimentoAnual(rev, year) ==
    JMul(JDiv(runningTotalRealizado(rev, year, Len(MONTHS)), Num(metaAnualFixa)),
         Num(100))

\* totalRealizadoAcumulado of part_002 after the i-th goal: += real
RECURSIVE totalRealizadoAcumulado(_, _, _)
totalRealizadoAcumulado(rev, year, i) ==
    IF i = 0 THEN Zero
    ELSE JAdd(totalRealizadoAcumulado(rev, year, i - 1),
              real(MonthActual(rev, year, TARGET_GOALS[i].month)))

\* overallPercentage of part_002:
\* totalMetaAcumulada > 0 ? (totalRealizadoAcumulado / totalMetaAcumulada) * 100 : 0
overallPercentage(rev, year) ==
    LET totalMetaAcumulada == runningTotalMeta(Len(TARGET_GOALS))
    IN  IF totalMetaAcumulada > 0
        THEN JMul(JDiv(totalRealizadoAcumulado(rev, year, Len(TARGET_GOALS)),
                       Num(totalMetaAcumulada)),
                  Num(100))
        ELSE Zero

\* the year's total realized and the overall attainment a snapshot shows
TotalRealized(v, rev, year) ==
    IF v = "p2" THEN totalRealizadoAcumulado(rev, year, Len(TARGET_GOALS))
    ELSE runningTotalRealizado(rev, year, Len(MONTHS))

OverallAttainment(v, rev, year) ==
    CASE v = "p2" -> overallPercentage(rev, year)
      [] v = "v12" -> biMetrics(rev, year).overallPercentage
      [] OTHER -> atingimentoAnual(rev, year)

(***************************************************************************)
(* Seller performance.                                                     *)
(***************************************************************************)
\* realizadoVendedor of sellerPerformance (v26, v23) after the i-th month:
\* rev = db.revenue[selectedYear]?.[m] || zeros; realizadoVendedor += rev[s.id] || 0
RECURSIVE realizadoVendedor(_, _, _, _)
realizadoVendedor(rev, year, s, i) ==
    IF i = 0 THEN Zero
    ELSE JAdd(realizadoVendedor(rev, year, s, i - 1),
              NumberOrZero(MonthActual(rev, year, MONTHS[i]), s))

\* metaVendedor += INDIVIDUAL_METAS[s.id]?.[m] || 0
RECURSIVE metaVendedor(_, _)
metaVendedor(s, i) ==
    IF i = 0 THEN 0 ELSE metaVendedor(s, i - 1) + INDIVIDUAL_METAS[s][MONTHS[i]]

\* atingimento of sellerPerformance: meta > 0 ? (realizado / meta) * 100 : 0
atingimento(realizado, meta) ==
    IF JGt(meta, Zero) THEN JMul(JDiv(realizado, meta), Num(100)) ELSE Zero

\* atingimento of part_002: meta > 0 ? (real / meta) * 100 : real > 0 ? 100 : 0
atingimentoP2(realizado, meta) ==
    IF JGt(meta, Zero) THEN JMul(JDiv(realizado, meta), Num(100))
    ELSE IF JGt(realizado, Zero) THEN Num(100) ELSE Zero

\* sellerPerformance of v26 and of v23
sellerPerformance(rev, year) ==
    [j \in 1..Len(SELLERS) |->
        LET s == SELLERS[j]
            realizado == realizadoVendedor(rev, year, s, Len(MONTHS))
            meta == Num(metaVendedor(s, Len(MONTHS)))
        IN  [id |-> s, realizado |-> realizado, meta |-> meta,
             atingimento |-> atingimento(realizado, meta)]]

\* monthGoal of part_002: TARGET_GOALS.find(g => g.month === selectedMonth) || TARGET_GOALS[0]
monthGoal(month) ==
    IF \E i \in 1..Len(TARGET_GOALS) : TARGET_GOALS[i].month = month
    THEN TARGET_GOALS[CHOOSE i \in 1..Len(TARGET_GOALS) : TARGET_GOALS[i].month = month]
    ELSE TARGET_GOALS[1]

\* sellersMonthSummary of part_002
sellersMonthSummary(rev, year, month) ==
    [j \in 1..Len(SELLERS) |->
        LET s == SELLERS[j]
            meta == OrZero(Num(monthGoal(month)[s]))
            realizado == NumberOrZero(MonthActual(rev, year, month), s)
        IN  [id |-> s, realizado |-> realizado, meta |-> meta,
             atingimento |-> atingimentoP2(realizado, meta)]]

\* Object.values(currentYearData).reduce((acc, curr) => acc + (Number(curr[k]) || 0), 0)
RECURSIVE realizadoTotal(_, _, _)
realizadoTotal(yearData, months, s) ==
    IF months = {} THEN Zero
    ELSE LET m == CHOOSE x \in months : TRUE
         IN  JAdd(realizadoTotal(yearData, months \ {m}, s),
                  NumberOrZero(yearData[m], s))

\* curr[k] on a month entry that is null raises a TypeError
sellersYearSummaryThrows(rev, year) ==
    LET yearData == currentYearActuals(rev, year)
    IN  \E m \in DOMAIN yearData : IsNullish(yearData[m])

\* metaTotal of part_002: TARGET_GOALS.reduce((acc, curr) => acc + (Number(curr[k]) || 0), 0)
RECURSIVE metaTotal(_, _)
metaTotal(s, i) ==
    IF i = 0 THEN 0 ELSE metaTotal(s, i - 1) + TARGET_GOALS[i][s]

\* sellersYearSummary of part_002
sellersYearSummary(rev, year) ==
    [j \in 1..Len(SELLERS) |->
        LET s == SELLERS[j]
            yearData == currentYearActuals(rev, year)
            meta == Num(metaTotal(s, Len(TARGET_GOALS)))
            realizado == realizadoTotal(yearData, DOMAIN yearData, s)
        IN  [id |-> s, realizado |-> realizado, meta |-> meta,
             atingimento |-> atingimentoP2(realizado, meta)]]

\* bestSellerMonth of part_002 after the first i rows:
\* rows.reduce((prev, curr) => (curr.realizado > prev.realizado ? curr : prev), rows[0])
RECURSIVE bestSellerMonth_LastMax(_, _)
bestSellerMonth_LastMax(rows, i) ==
    IF i = 0 THEN rows[1]
    ELSE LET prev == bestSellerMonth_LastMax(rows, i - 1)
         IN  IF JLe(prev.realizado, rows[i].realizado) THEN rows[i] ELSE prev
RECURSIVE bestSellerMonth(_, _)
bestSellerMonth(rows, i) ==
    IF i = 0 THEN rows[1]
    ELSE LET prev == bestSellerMonth(rows, i - 1)
         IN  IF JGt(rows[i].realizado, prev.realizado) THEN rows[i] ELSE prev

(***************************************************************************)
(* Client analysis.                                                        *)
(***************************************************************************)
\* rows.sort((a, b) => b[f] - a[f]): descending, equal keys keep their order
InsertSorted_Append(rows, x, f) == rows \o <<x>>
RECURSIVE InsertSorted(_, _, _)
InsertSorted(rows, x, f) ==
    IF Len(rows) = 0 THEN <<x>>
    ELSE IF JGt(x[f], Head(rows)[f]) THEN <<x>> \o rows
    ELSE <<Head(rows)>> \o InsertSorted(Tail(rows), x, f)

RECURSIVE SortDescBy(_, _)
SortDescBy(rows, f) ==
    IF Len(rows) = 0 THEN <<>>
    ELSE InsertSorted(SortDescBy(SubSeq(rows, 1, Len(rows) - 1), f),
                      rows[Len(rows)], f)

\* rows.slice(0, i).reduce((acc, c) => acc + c[f], 0)
RECURSIVE SumField(_, _, _)
SumField(rows, f, i) ==
    IF i = 0 THEN Zero ELSE JAdd(SumField(rows, f, i - 1), rows[i][f])

\* client.history[y] || 0
HistoryValue(client, y) == NumberOrZero(client.history, y)

\* projections[client.id]?.[year] || 0
ProjectionValue(proj, id, year) ==
    IF IsNullish(Prop(proj, id)) THEN Zero ELSE NumberOrZero(Prop(proj, id), year)

\* cumulative of v12 and v17: t20Total2025 > 0 ? (cumulativeSum / t20Total2025) * 100 : 0
cumulative(cumulativeSum, t20Total2025) ==
    IF JGt(t20Total2025, Zero)
    THEN JMul(JDiv(cumulativeSum, t20Total2025), Num(100))
    ELSE Zero

\* cumulative of part_002: (slice sum / totalRealT20) * 100
cumulativeP2(sliceSum, totalRealT20) == JMul(JDiv(sliceSum, totalRealT20), Num(100))

\* avgHist: HISTORICAL_YEARS.reduce((sum, yr) => sum + (client.history[yr] || 0), 0)
\*          / HISTORICAL_YEARS.length
RECURSIVE historySum(_, _)
historySum(client, i) ==
    IF i = 0 THEN Zero
    ELSE JAdd(historySum(client, i - 1), HistoryValue(client, HISTORICAL_YEARS[i]))

avgHist(client) ==
    JDiv(historySum(client, Len(HISTORICAL_YEARS)), Num(Len(HISTORICAL_YEARS)))

\* status of v12: STAR above 1.2 x avgHist, else CHURN, else DECREASE, else STABLE
statusV12(lastYear, prevYear, avg) ==
    IF JGt(lastYear, JMul(avg, Rat(6, 5))) THEN "STAR"
    ELSE IF JEq(lastYear, Zero) /\ JGt(prevYear, Zero) THEN "CHURN"
    ELSE IF JLt(lastYear, JMul(prevYear, Rat(4, 5))) /\ JGt(lastYear, Zero) THEN "DECREASE"
    ELSE "STABLE"

\* status of v17: STAR above 1.15 x avgHist, CHURN at 0, DECREASE below 0.8 x avgHist
statusV17(lastYear, avg) ==
    IF JGt(lastYear, JMul(avg, Rat(23, 20))) THEN "STAR"
    ELSE IF JEq(lastYear, Zero) THEN "CHURN"
    ELSE IF JLt(lastYear, JMul(avg, Rat(4, 5))) THEN "DECREASE"
    ELSE "STABLE"

\* status of part_002: the second if overrides the first two
statusP2(v2025, v2024) ==
    IF JEq(v2025, Zero) /\ JGt(v2024, Zero) THEN "ATTENTION"
    ELSE IF JGt(v2025, JMul(v2024, Rat(13, 10))) /\ JGt(v2025, Zero) THEN "STAR"
    ELSE IF JLt(v2025, JMul(v2024, Rat(7, 10))) /\ JGt(v2025, Zero) THEN "CHURN"
    ELSE "STABLE"

\* t20Analysis of v12 and of v17: rows sorted on lastYear, and the Pareto series
t20Analysis(v, table) ==
    LET sorted == SortDescBy([i \in 1..Len(table) |->
                                LET lastYear == HistoryValue(table[i], "2025")
                                    prevYear == HistoryValue(table[i], "2024")
                                IN  [id |-> table[i].id,
                                     lastYear |-> lastYear,
                                     prevYear |-> prevYear,
                                     avgHist |-> avgHist(table[i]),
                                     status |-> IF v = "v12"
                                                THEN statusV12(lastYear, prevYear,
                                                               avgHist(table[i]))
                                                ELSE statusV17(lastYear,
                                                               avgHist(table[i]))]],
                             "lastYear")
        t20Total2025 == SumField(sorted, "lastYear", Len(sorted))
    IN  [analysis |-> sorted,
         t20Total2025 |-> t20Total2025,
         paretoData |->
            [i \in 1..Len(sorted) |->
                [value |-> sorted[i].lastYear,
                 cumulative |-> cumulative(SumField(sorted, "lastYear", i),
                                           t20Total2025)]]]

\* clientAnalysis of part_002
clientAnalysis(table) ==
    LET sorted == SortDescBy([i \in 1..Len(table) |->
                                LET v2025 == HistoryValue(table[i], "2025")
                                    v2024 == HistoryValue(table[i], "2024")
                                IN  [id |-> table[i].id,
                                     v2025 |-> v2025,
                                     v2024 |-> v2024,
                                     status |-> statusP2(v2025, v2024)]],
                             "v2025")
        totalRealT20 == SumField(sorted, "v2025", Len(sorted))
    IN  [analysis |-> sorted,
         totalRealT20 |-> totalRealT20,
         paretoData |->
            [i \in 1..Len(sorted) |->
                [value |-> sorted[i].v2025,
                 cumulative |-> cumulativeP2(SumField(sorted, "v2025", i),
                                             totalRealT20)]]]

\* the year whose projection decides idleness: the selected one in v26, 2026 in v23
TargetYear(v, selYear) == IF v = "v23" THEN "2026" ELSE selYear

\* opportunityCost = isOcioso ? mediaHistoricaAnual : 0, with isOcioso = valProj === 0
opportunityCost_Always(valProj, mediaHistoricaAnual) == mediaHistoricaAnual
opportunityCost(valProj, mediaHistoricaAnual) ==
    IF JEq(valProj, Zero) THEN mediaHistoricaAnual ELSE Zero

\* t20Analysis of v26 and of v23: rows sorted on histTotal, and the total cost
t20AnalysisIdle(v, table, proj, selYear) ==
    LET sorted ==
            SortDescBy([i \in 1..Len(table) |->
                LET histTotal == NumberOrZero(table[i].history, "aggregate")
                    mediaHistoricaAnual == JDiv(histTotal, Num(5))
                    valProj == ProjectionValue(proj, table[i].id, TargetYear(v, selYear))
                IN  [id |-> table[i].id,
                     histTotal |-> histTotal,
                     mediaHistoricaAnual |-> mediaHistoricaAnual,
                     valProj |-> valProj,
                     isOcioso |-> JEq(valProj, Zero),
                     opportunityCost |-> opportunityCost(valProj, mediaHistoricaAnual)]],
                "histTotal")
    IN  [analysis |-> sorted,
         totalOpportunityCost |-> SumField(sorted, "opportunityCost", Len(sorted))]

(***************************************************************************)
(* Costs and margin (v26, v17, v23).                                       *)
(***************************************************************************)
\* op of biMetrics: currentYearOp[m] || { zm: 0, terceiro: 0, correios: 0, mercadoria: 0 }
MonthOp(op, year, month) ==
    OrElse(Prop(OrElse(Prop(op, year), EmptyObj), month), ZeroOp)

\* logMes: (Number(op.zm) || 0) + (Number(op.terceiro) || 0) + (Number(op.correios) || 0)
logMes(op) ==
    JAdd(JAdd(NumberOrZero(op, "zm"), NumberOrZero(op, "terceiro")),
         NumberOrZero(op, "correios"))

\* mercMes: Number(op.mercadoria) || 0
mercMes(op) == NumberOrZero(op, "mercadoria")

\* realMes > 0 ? (x / realMes) * 100 : 0
percOf(x, realizado) ==
    IF JGt(realizado, Zero) THEN JMul(JDiv(x, realizado), Num(100)) ELSE Zero

\* the warning of a month: the isWarning field of v17 (percLog > 10 || percMerc > 50),
\* the red cell of v23 (row.percLog > 9) and of v26 (row.percCusto > 40)
isWarning(v, percLog, percMerc, percCusto) ==
    CASE v = "v17" -> JGt(percLog, Num(10)) \/ JGt(percMerc, Num(50))
      [] v = "v23" -> JGt(percLog, Num(9))
      [] OTHER -> JGt(percCusto, Num(40))

\* monthlyData of biMetrics in v26, v17 and v23, with the warning shown for the row
costRows(v, d, year) ==
    [i \in 1..Len(MONTHS) |->
        LET actual == MonthActual(d.revenue, year, MONTHS[i])
            op == MonthOp(d.operational, year, MONTHS[i])
            realizado == realMes(actual)
            logistica == logMes(op)
            mercadoria == mercMes(op)
            percLog == percOf(logistica, realizado)
            percMerc == percOf(mercadoria, realizado)
            percCusto == percOf(JAdd(logistica, mercadoria), realizado)
        IN  [month |-> MONTHS[i],
             realizado |-> realizado,
             logistica |-> logistica,
             mercadoria |-> mercadoria,
             custoTotal |-> JAdd(logistica, mercadoria),
             margem |-> JSub(JSub(realizado, logistica), mercadoria),
             percLog |-> percLog,
             percMerc |-> percMerc,
             percCusto |-> percCusto,
             isWarning |-> isWarning(v, percLog, percMerc, percCusto)]]

\* totalLogistica += logMes; totalMercadoria += mercMes
RECURSIVE totalLogistica(_, _, _)
totalLogistica(op, year, i) ==
    IF i = 0 THEN Zero
    ELSE JAdd(totalLogistica(op, year, i - 1), logMes(MonthOp(op, year, MONTHS[i])))

RECURSIVE totalMercadoria(_, _, _)
totalMercadoria(op, year, i) ==
    IF i = 0 THEN Zero
    ELSE JAdd(totalMercadoria(op, year, i - 1), mercMes(MonthOp(op, year, MONTHS[i])))

\* margemAnual of v17 and margemBrutaAnual of v23:
\* totalRealizado - totalLogistica - totalMercadoria
margemBrutaAnual_Clamped(d, year) ==
    LET m == JSub(JSub(runningTotalRealizado(d.revenue, year, Len(MONTHS)),
                       totalLogistica(d.operational, year, Len(MONTHS))),
                  totalMercadoria(d.operational, year, Len(MONTHS)))
    IN  IF JLt(m, Zero) THEN Zero ELSE m
margemBrutaAnual(d, year) ==
    JSub(JSub(runningTotalRealizado(d.revenue, year, Len(MONTHS)),
              totalLogistica(d.operational, year, Len(MONTHS))),
         totalMercadoria(d.operational, year, Len(MONTHS)))

\* the footer of v26: biMetrics.totalRealizado - biMetrics.totalCustoGeral, with
\* totalCustoGeral = totalLogistica + totalMercadoria
margemEstBruta(d, year) ==
    JSub(runningTotalRealizado(d.revenue, year, Len(MONTHS)),
         JAdd(totalLogistica(d.operational, year, Len(MONTHS)),
              totalMercadoria(d.operational, year, Len(MONTHS))))

\* the annual margin a snapshot shows
AnnualMargin(v, d, year) ==
    IF v = "v26" THEN margemEstBruta(d, year) ELSE margemBrutaAnual(d, year)

(***************************************************************************)
(* Views whose computation raises.                                         *)
(***************************************************************************)
\* the metrics memo of part_002 is computed on every render
RenderThrows(v, d, year) == v = "p2" /\ sellersYearSummaryThrows(d.revenue, year)

\* the row of the efficiency table: db.operational[selectedYear][row.month]
efficiencyRowThrows(v, op, year) == HasOperational(v) /\ IsNullish(Prop(op, year))

\* the projection cell of the client table: clientProjections[client.id][y]
projectionCellThrows(v, proj) ==
    v \in {"p2", "v17"} /\ \E c \in ClientIds(v) : IsNullish(Prop(proj, c))

\* some view of the snapshot raises when it is computed
ViewThrows(v, d, year) ==
    \/ RenderThrows(v, d, year)
    \/ efficiencyRowThrows(v, d.operational, year)
    \/ projectionCellThrows(v, d.projections)

(***************************************************************************)
(* Memoized views: useMemo(compute, deps) computes the view on the first   *)
(* render and again on every render in which one of deps has changed.      *)
(***************************************************************************)
\* the useMemo calls of a snapshot of the application
MemoNames(v) ==
    CASE v \in {"v26", "v23"} -> {"biMetrics", "t20Analysis", "sellerPerformance"}
      [] v \in {"v12", "v17"} -> {"biMetrics", "t20Analysis"}
      [] OTHER -> {"metrics", "clientAnalysis"}

\* currentYearData of part_002: actualData[selectedYear] || {}, itself memoized on
\* [actualData, selectedYear]
currentYearData(rev, year) == OrElse(Prop(rev, year), EmptyObj)

\* the dependency array of a useMemo call
memoDeps_Snapshot(v, name, d, year, month) == <<d>>
memoDeps(v, name, d, year, month) ==
    CASE v = "v26" -> <<d, year>>
      [] v = "v23" -> IF name = "t20Analysis" THEN <<d>> ELSE <<d, year>>
      [] v = "v12" -> IF name = "biMetrics" THEN <<d.revenue, year>>
                      ELSE <<d.projections>>
      [] v = "v17" -> IF name = "biMetrics" THEN <<d.revenue, d.operational, year>>
                      ELSE <<d.projections>>
      [] OTHER -> IF name = "metrics" THEN <<currentYearData(d.revenue, year), month>>
                  ELSE <<d.projections>>

\* the state a useMemo callback reads
memoReads(v, name, d, year, month) ==
    CASE name = "biMetrics" ->
            IF v = "v12" THEN <<d.revenue, year>>
            ELSE <<d.revenue, d.operational, year>>
      [] name = "metrics" -> <<currentYearData(d.revenue, year), month>>
      [] name = "sellerPerformance" -> <<d.revenue, year>>
      [] name = "t20Analysis" /\ v = "v26" -> <<d.projections, year>>
      [] OTHER -> <<d.projections>>

\* one render: a view is computed again exactly when its dependencies changed
useMemo(cache, v, d, year, month) ==
    [name \in MemoNames(v) |->
        IF name \in DOMAIN cache /\ cache[name].deps = memoDeps(v, name, d, year, month)
        THEN cache[name]
        ELSE [deps |-> memoDeps(v, name, d, year, month),
              reads |-> memoReads(v, name, d, year, month)]]

\* the projections a client analysis puts into the trend of a client
trendProjections(v, proj) ==
    [c \in ClientIds(v) |->
        [y \in (CASE v = "v12" -> {"2026"}
                  [] v = "v17" -> {"2026", "2027", "2028"}
                  [] OTHER -> Range(YEARS)) |-> ProjectionValue(proj, c, y)]]

\* the value the callback of a useMemo call returns for what it reads
memoView(v, name, reads, table) ==
    CASE name = "biMetrics" /\ v = "v12" -> biMetrics(reads[1], reads[2])
      [] name = "biMetrics" /\ v # "v12" ->
            LET d == [revenue |-> reads[1], operational |-> reads[2]]
            IN  [monthlyData |-> monthlyData(v, d.revenue, reads[3]),
                 costs |-> costRows(v, d, reads[3]),
                 totalRealizado |-> TotalRealized(v, d.revenue, reads[3]),
                 atingimento |-> OverallAttainment(v, d.revenue, reads[3]),
                 margem |-> AnnualMargin(v, d, reads[3])]
      [] name = "metrics" ->
            LET rev == [y \in {"2026"} |-> reads[1]]
            IN  [chartData |-> monthlyData(v, rev, "2026"),
                 overallPercentage |-> overallPercentage(rev, "2026"),
                 sellersMonthSummary |-> sellersMonthSummary(rev, "2026", reads[2]),
                 sellersYearSummary |-> sellersYearSummary(rev, "2026")]
      [] name = "sellerPerformance" -> sellerPerformance(reads[1], reads[2])
      [] name = "t20Analysis" /\ v = "v26" ->
            t20AnalysisIdle(v, table, reads[1], reads[2])
      [] name = "t20Analysis" /\ v = "v23" ->
            t20AnalysisIdle(v, table, reads[1], "2026")
      [] name = "t20Analysis" /\ v \in {"v12", "v17"} ->
            [t20 |-> t20Analysis(v, table), trend |-> trendProjections(v, reads[1])]
      [] OTHER ->
            [t20 |-> clientAnalysis(table), trend |-> trendProjections(v, reads[1])]

(***************************************************************************)
(* The application.                                                        *)
(***************************************************************************)
Mounted == status \in {"hydrated", "ok"}

\* the input fields carry no disabled attribute: a pending advisory request does not
\* lock them
EditingDisabled(consulting) == FALSE

Init ==
    /\ variant \in Variants
    /\ store \in InitialStores(variant)
    /\ db = EmptyObj
    /\ selectedYear = "2026"
    /\ status = "boot"
    /\ edits = 0
    /\ text = <<>>
    /\ num = Zero
    /\ shown = Zero
    /\ npc = "idle"
    /\ clients = HISTORICAL_TOP_CLIENTS(variant)
    /\ analysis = <<>>
    /\ selectedMonth \in StartMonths(variant)
    /\ isConsulting = FALSE
    /\ dailyReport = "none"
    /\ inFlight = 0
    /\ insight = "none"
    /\ memo = <<>>

\* the edited state is rendered; part_002 persists it in an effect
Crash ==
    /\ status' = "crashed"
    /\ UNCHANGED <<db, store, memo>>

Commit(d) ==
    IF RenderThrows(variant, d, selectedYear)
    THEN Crash
    ELSE /\ db' = d
         /\ store' = IF variant = "p2" THEN Persisted(variant, d) ELSE store
         /\ status' = "ok"
         /\ memo' = useMemo(memo, variant, d, selectedYear, selectedMonth)

\* first render: the useState initializers run
Mount ==
    /\ status = "boot"
    /\ selectedYear' = "2026"
    /\ IF HydrateThrows(variant, store)
          \/ RenderThrows(variant, Hydrate(variant, store), "2026")
       THEN Crash
       ELSE /\ db' = Hydrate(variant, store)
            /\ store' = IF variant = "p2"
                        THEN Persisted(variant, Hydrate(variant, store))
                        ELSE store
            /\ status' = "hydrated"
            /\ memo' = useMemo(EmptyObj, variant, Hydrate(variant, store), "2026",
                               selectedMonth)
    /\ dailyReport' = IF variant = "v12" THEN insight ELSE dailyReport
    /\ UNCHANGED <<variant, edits>>
    /\ UNCHANGED <<selectedMonth, isConsulting, inFlight, insight>>
    /\ UNCHANGED normVars
    /\ UNCHANGED tblVars

SelectYear ==
    /\ Mounted
    /\ \E y \in YearChoices :
        /\ y # selectedYear
        /\ selectedYear' = y
        /\ status' = IF RenderThrows(variant, db, y) THEN "crashed" ELSE "ok"
        /\ memo' = IF RenderThrows(variant, db, y) THEN memo
                   ELSE useMemo(memo, variant, db, y, selectedMonth)
    /\ UNCHANGED <<variant, store, db, edits>>
    /\ UNCHANGED normVars
    /\ UNCHANGED tblVars
    /\ UNCHANGED uiVars

\* setSelectedMonth of part_002
SelectMonth ==
    /\ Mounted
    /\ variant = "p2"
    /\ \E m \in MonthChoices :
        /\ m # selectedMonth
        /\ selectedMonth' = m
        /\ memo' = useMemo(memo, variant, db, selectedYear, m)
    /\ status' = "ok"
    /\ UNCHANGED <<variant, store, db, selectedYear, edits>>
    /\ UNCHANGED <<isConsulting, dailyReport, inFlight, insight>>
    /\ UNCHANGED normVars
    /\ UNCHANGED tblVars

\* the user types text t into the field of (selected year, month m, seller s)
EditRevenueOf(m, s, t) ==
    /\ Mounted
    /\ ~EditingDisabled(isConsulting)
    /\ edits < MaxEdits
    /\ edits' = edits + 1
    /\ LET n == Normalize(variant, t)
       IN  IF UnguardedEdits(variant)
           THEN IF handleRevenueInputThrows(db.revenue, selectedYear)
                THEN Crash
                ELSE Commit([db EXCEPT !.revenue =
                       handleRevenueInput(db.revenue, selectedYear, m, s, n)])
           ELSE Commit([db EXCEPT !.revenue =
                       handleInputChange(db.revenue, selectedYear, m, s, n)])
    /\ UNCHANGED <<variant, selectedYear>>
    /\ UNCHANGED normVars
    /\ UNCHANGED tblVars
    /\ UNCHANGED uiVars

EditRevenue ==
    \E m \in EditMonths, s \in EditSellers, t \in EditTexts : EditRevenueOf(m, s, t)

\* the user types text t into the cost field f of (selected year, month m)
EditOperationalOf(m, f, t) ==
    /\ Mounted
    /\ ~EditingDisabled(isConsulting)
    /\ HasOperational(variant)
    /\ edits < MaxEdits
    /\ edits' = edits + 1
    /\ LET n == Normalize(variant, t)
       IN  IF UnguardedEdits(variant)
           THEN IF handleOpInputThrows(db.operational, selectedYear)
                THEN Crash
                ELSE Commit([db EXCEPT !.operational =
                       handleOpInput(db.operational, selectedYear, m, f, n)])
           ELSE Commit([db EXCEPT !.operational =
                       handleOpChange(db.operational, selectedYear, m, f, n)])
    /\ UNCHANGED <<variant, selectedYear>>
    /\ UNCHANGED normVars
    /\ UNCHANGED tblVars
    /\ UNCHANGED uiVars

EditOperational ==
    \E m \in EditMonths, f \in EditOpFields, t \in EditTexts :
        EditOperationalOf(m, f, t)

\* the user types text t into the projection field of (client c, year y)
EditProjectionOf(c, y, t) ==
    /\ Mounted
    /\ ~EditingDisabled(isConsulting)
    /\ edits < MaxEdits
    /\ edits' = edits + 1
    /\ Commit([db EXCEPT !.projections =
                 handleT20Input(db.projections, c, y, Normalize(variant, t))])
    /\ UNCHANGED <<variant, selectedYear>>
    /\ UNCHANGED normVars
    /\ UNCHANGED tblVars
    /\ UNCHANGED uiVars

EditProjection ==
    \E c \in ClientIds(variant),
       y \in ProjectionEditYears(variant, selectedYear) \cap YearChoices,
       t \in EditTexts :
        EditProjectionOf(c, y, t)

\* handleGlobalSave, handleSaveSales, handleSaveData: the explicit save button
Save ==
    /\ Mounted
    /\ variant # "p2"
    /\ store' = Persisted(variant, db)
    /\ status' = "ok"
    /\ UNCHANGED <<variant, db, selectedYear, edits, memo>>
    /\ UNCHANGED normVars
    /\ UNCHANGED tblVars
    /\ UNCHANGED uiVars

\* the page is loaded again: every useState starts over from localStorage
Reload ==
    /\ status # "boot"
    /\ status' = "boot"
    /\ db' = EmptyObj
    /\ selectedYear' = "2026"
    /\ memo' = EmptyObj
    /\ UNCHANGED <<variant, store, edits>>
    /\ UNCHANGED normVars
    /\ UNCHANGED tblVars
    /\ UNCHANGED uiVars

Next ==
    \/ Mount
    \/ SelectYear
    \/ SelectMonth
    \/ EditRevenue
    \/ EditOperational
    \/ EditProjection

Spec == Init /\ [][Next]_vars

\* the application with its save button and page reloads, started on an empty store
InitPersist ==
    /\ Init
    /\ store = AllItems(variant, Absent)

NextPersist ==
    \/ Mount
    \/ EditRevenue
    \/ EditOperational
    \/ EditProjection
    \/ Save
    \/ Reload

SpecPersist == InitPersist /\ [][NextPersist]_vars

\* the same, started on any of the stores the application can find
SpecReload == Init /\ [][NextPersist]_vars

(***************************************************************************)
(* The advisory request of v12 (fetchAIAnalysis) and of part_002           *)
(* (fetchDailyReport).  Without an API key v12 returns before any state    *)
(* changes, which is a stuttering step.                                    *)
(***************************************************************************)
HasAdvisory(v) == v \in {"v12", "p2"}

\* the button is disabled while isConsulting; setIsConsulting(true), then the request
fetchAdvisory ==
    /\ Mounted
    /\ HasAdvisory(variant)
    /\ ~isConsulting
    /\ isConsulting' = TRUE
    /\ inFlight' = inFlight + 1
    /\ UNCHANGED <<selectedMonth, dailyReport, insight>>
    /\ UNCHANGED appVars
    /\ UNCHANGED normVars
    /\ UNCHANGED tblVars

\* the reply arrives: setDailyReport(text), v12 also stores it; finally
\* setIsConsulting(false).  part_002 shows "Sem dados." for an empty reply.
AdvisorySuccess ==
    /\ inFlight > 0
    /\ inFlight' = inFlight - 1
    /\ \E reply \in IF variant = "p2" THEN {"text", "Sem dados."} ELSE {"text"} :
        /\ insight' = IF variant = "v12" THEN reply ELSE insight
        /\ dailyReport' = IF Mounted THEN reply ELSE dailyReport
    /\ isConsulting' = IF Mounted THEN FALSE ELSE isConsulting
    /\ UNCHANGED selectedMonth
    /\ UNCHANGED appVars
    /\ UNCHANGED normVars
    /\ UNCHANGED tblVars

\* the request fails: v12 logs the error, part_002 shows "Erro na API."; finally
\* setIsConsulting(false)
AdvisoryFailure ==
    /\ inFlight > 0
    /\ inFlight' = inFlight - 1
    /\ dailyReport' = IF Mounted /\ variant = "p2" THEN "Erro na API." ELSE dailyReport
    /\ isConsulting' = IF Mounted THEN FALSE ELSE isConsulting
    /\ UNCHANGED <<selectedMonth, insight>>
    /\ UNCHANGED appVars
    /\ UNCHANGED normVars
    /\ UNCHANGED tblVars

InitAdvisory ==
    /\ variant \in {v \in Variants : HasAdvisory(v)}
    /\ store \in InitialStores(variant)
    /\ db = EmptyObj
    /\ selectedYear = "2026"
    /\ status = "boot"
    /\ edits = 0
    /\ text = <<>>
    /\ num = Zero
    /\ shown = Zero
    /\ npc = "idle"
    /\ clients = HISTORICAL_TOP_CLIENTS(variant)
    /\ analysis = <<>>
    /\ selectedMonth \in StartMonths(variant)
    /\ isConsulting = FALSE
    /\ dailyReport = "none"
    /\ inFlight = 0
    /\ insight \in IF variant = "v12" THEN {"none", "text"} ELSE {"none"}
    /\ memo = <<>>

NextAdvisory ==
    \/ Mount
    \/ EditRevenue
    \/ EditProjection
    \/ fetchAdvisory
    \/ AdvisorySuccess
    \/ AdvisoryFailure

SpecAdvisory == InitAdvisory /\ [][NextAdvisory]_vars

\* a request that was sent settles: the promise of generateContent is resolved or
\* rejected, and the catch and finally blocks then run
SpecAdvisoryFair == SpecAdvisory /\ WF_vars(AdvisorySuccess \/ AdvisoryFailure)

(***************************************************************************)
(* Client-analysis harness: the Pareto analysis is a pure function of the  *)
(* client table.  The table is drawn from bounded sets and analysed by the *)
(* snapshot of the application that is running.                            *)
(***************************************************************************)
MaxClients == 3
ReferenceValues == {0, 100, 300, 600}
PriorValues == {0, 300}
OlderValues == {0, 3000}
CLIENT_IDS == <<"c1", "c2", "c3", "c4", "c5">>

\* a table whose i-th client has f[i][1] as its 2025 value, f[i][2] as its 2024 value
\* and f[i][3] as its 2021 value
DrawnTable(f) ==
    [i \in DOMAIN f |->
        [id |-> CLIENT_IDS[i], history |-> PerYear(f[i][3], 0, 0, f[i][2], f[i][1])]]

\* per-year tables of up to MaxClients clients, and the aggregate table of constants.ts
ClientTables ==
    {DrawnTable(f) :
        f \in UNION {[1..n -> ReferenceValues \X PriorValues \X OlderValues] :
                        n \in 0..MaxClients}}
    \cup {SubSeq(AggregateClients, 1, NClients)}
    \cup {SubSeq(AggregateClients, i, j) : i, j \in 1..Len(AggregateClients)}

\* the snapshots of the application that derive a Pareto series
ParetoVariants == {"v12", "p2", "v17"}

\* the analysis a snapshot derives from the table; v26 and v23 with no projection
\* entered yet
ClientView(v, table) ==
    CASE v = "p2" -> clientAnalysis(table)
      [] v \in {"v12", "v17"} -> t20Analysis(v, table)
      [] OTHER -> t20AnalysisIdle(v, table, EmptyObj, "2026")

InitClients ==
    /\ variant \in Variants
    /\ store = <<>>
    /\ db = <<>>
    /\ selectedYear = "2026"
    /\ status = "boot"
    /\ edits = 0
    /\ text = <<>>
    /\ num = Zero
    /\ shown = Zero
    /\ npc = "table"
    /\ clients \in ClientTables
    /\ analysis = <<>>
    /\ selectedMonth = "Jan"
    /\ isConsulting = FALSE
    /\ dailyReport = "none"
    /\ inFlight = 0
    /\ insight = "none"
    /\ memo = <<>>

\* the useMemo of the client analysis runs
Analyse ==
    /\ npc = "table"
    /\ analysis' = ClientView(variant, clients)
    /\ npc' = "analysed"
    /\ UNCHANGED <<text, num, shown, clients>>
    /\ UNCHANGED appVars
    /\ UNCHANGED uiVars

NextClients == Analyse

SpecClients == InitClients /\ [][NextClients]_vars

(***************************************************************************)
(* Claims about the input normalizer (checked under SpecNorm).             *)
(***************************************************************************)

\* the text the number parser receives: separators stripped, comma turned to a point
Cleaned(s) == ReplaceFirstComma(StripAll(s))

\* s is, as a whole, a well-formed number: [sign] digits [. digits] with a digit
WellFormedNumber(s) ==
    LET u == IF s # <<>> /\ Head(s) \in {"-", "+"} THEN Tail(s) ELSE s
        points == {i \in 1..Len(u) : u[i] = "."}
    IN  /\ \A i \in 1..Len(u) : IsDigit(u[i]) \/ u[i] = "."
        /\ Cardinality(points) <= 1
        /\ \E i \in 1..Len(u) : IsDigit(u[i])

\* C3 (as claimed): the normalizer is idempotent through the edit field:
\* normalizing the text the field shows for normalize(x) gives normalize(x) again.
C3_NormalizerIdempotent == npc = "again" => num = shown

\* C4 (as claimed): the normalizer always returns a number, and returns 0 for the
\* empty text and for every text whose cleaned form is not a well-formed number.
C4_MalformedIsZero ==
    npc = "stored" =>
        /\ IsFin(num)
        /\ (text = <<>> => num = Zero)
        /\ (~WellFormedNumber(Cleaned(text)) => num = Zero)

(***************************************************************************)
(* Claims about hydration (checked under Spec).                            *)
(***************************************************************************)

\* entry holds a number under every one of the fields
HasFields(entry, fields) ==
    /\ ~IsNullish(entry)
    /\ \A f \in fields : f \in DOMAIN entry /\ IsNumber(entry[f])

\* the ledger has, for every year of YEARS and month of MONTHS, an entry with the fields
CompleteLedger(ledger, fields) ==
    \A y \in Range(YEARS), m \in Range(MONTHS) :
        /\ ~IsNullish(Prop(ledger, y))
        /\ HasFields(Prop(Prop(ledger, y), m), fields)

\* C1 (as claimed): after hydration from any persisted payload the snapshot has,
\* for every year and every month, a revenue entry holding the four seller fields
\* and (where the snapshot keeps costs) an operational entry holding the four
\* cost fields.
C1_HydratedSnapshotIsComplete ==
    status = "hydrated" =>
        /\ CompleteLedger(db.revenue, Range(SELLERS))
        /\ HasOperational(variant) => CompleteLedger(db.operational, Range(OP_FIELDS))

\* no stored item holds a parsable text
Unusable(st) == \A key \in DOMAIN st : st[key].kind \in {"absent", "empty", "corrupt"}

\* C2 (as claimed): when the persisted payload is absent or not parsable, the first
\* render raises nothing and hydration returns exactly the zero-filled skeleton.
C2_UnusablePayloadGivesSkeleton ==
    [][(status = "boot" /\ Unusable(store))
          => (status' = "hydrated" /\ db' = Skeleton(variant))]_vars

(***************************************************************************)
(* Claims about the monthly series (checked under Spec).                   *)
(***************************************************************************)

\* the snapshot's entry of (year, month, seller); an entry the snapshot lacks is 0
SellerEntry(rev, y, m, s) ==
    LET yr == Prop(rev, y)
        mo == IF IsNullish(yr) THEN UndefV ELSE Prop(yr, m)
        x == IF IsNullish(mo) THEN UndefV ELSE Prop(mo, s)
    IN  IF IsNumber(x) THEN x ELSE Zero

EntrySum(rev, y, m) ==
    JAdd(JAdd(SellerEntry(rev, y, m, "v3"), SellerEntry(rev, y, m, "v2")),
         JAdd(SellerEntry(rev, y, m, "v1"), SellerEntry(rev, y, m, "syllas")))

\* series[1][f] + ... + series[Len(series)][f], added from the last element down
RECURSIVE TotalFrom(_, _, _)
TotalFrom(series, f, i) ==
    IF i > Len(series) THEN Zero ELSE JAdd(series[i][f], TotalFrom(series, f, i + 1))

Total(series, f) == TotalFrom(series, f, 1)

\* C5 (as claimed): in every state reached by hydration, edits and year selections,
\* the realized value of every month of the selected year in the monthly series is
\* the sum of that month's four per-seller entries in the snapshot.
C5_RealizedIsSumOfSellers ==
    Mounted =>
        \A i \in 1..Len(MONTHS) :
            monthlyData(variant, db.revenue, selectedYear)[i].realizado
                = EntrySum(db.revenue, selectedYear, MONTHS[i])

\* every seller entry of the year is 0 or more
NonNegativeYear(rev, y) ==
    \A m \in Range(MONTHS), s \in Range(SELLERS) : JLe(Zero, SellerEntry(rev, y, m, s))

\* C6: the cumulative realized series starts at January's realized value, each later
\* month adds its realized value to the month before, so it never decreases when no
\* entry is negative, and its December value is the sum of the twelve realized values
\* and the reported total realized.
C6_CumulativeRealized ==
    (variant = "v12" /\ Mounted) =>
        LET m == biMetrics(db.revenue, selectedYear)
            md == m.monthlyData
        IN  /\ Len(md) = 12
            /\ \A i \in 1..12 : md[i].month = MONTHS[i]
            /\ md[1].acumuladoReal = md[1].realizado
            /\ \A i \in 2..12 :
                md[i].acumuladoReal = JAdd(md[i - 1].acumuladoReal, md[i].realizado)
            /\ NonNegativeYear(db.revenue, selectedYear) =>
                \A i \in 2..12 : JLe(md[i - 1].acumuladoReal, md[i].acumuladoReal)
            /\ md[12].acumuladoReal = Total(md, "realizado")
            /\ m.totalRealizado = md[12].acumuladoReal

\* C6 witness: January and December both hold realized values and December's
\* cumulative value is their sum.
C6_Witness ==
    /\ variant = "v12"
    /\ Mounted
    /\ LET md == biMetrics(db.revenue, selectedYear).monthlyData
       IN  /\ md[1].realizado = Num(12000)
           /\ md[12].realizado = Num(7)
           /\ md[11].acumuladoReal = Num(12000)
           /\ md[12].acumuladoReal = Num(12007)

ReferenceValue(client) ==
    IF "2025" \in DOMAIN client.history /\ IsNumber(client.history["2025"])
    THEN client.history["2025"] ELSE Zero

RECURSIVE GrandTotalFrom(_, _)
GrandTotalFrom(table, i) ==
    IF i > Len(table) THEN Zero
    ELSE JAdd(ReferenceValue(table[i]), GrandTotalFrom(table, i + 1))

GrandTotal(table) == GrandTotalFrom(table, 1)

\* C8 (as claimed): the Pareto series runs over the clients in descending reference
\* value, never decreases, stays within [0, 100], ends at 100 when the grand total is
\* positive, and is 60, 90, 100 for the reference values 600, 300, 100.
C8_ParetoSeries ==
    (npc = "analysed" /\ variant \in ParetoVariants) =>
        LET p == analysis.paretoData
            n == Len(p)
        IN  /\ n = Len(clients)
            /\ \A i \in 1..(n - 1) : JLe(p[i + 1].value, p[i].value)
            /\ \A i \in 1..(n - 1) : JLe(p[i].cumulative, p[i + 1].cumulative)
            /\ \A i \in 1..n : JLe(Zero, p[i].cumulative) /\ JLe(p[i].cumulative, Num(100))
            /\ (n > 0 /\ JGt(GrandTotal(clients), Zero)) => p[n].cumulative = Num(100)
            /\ (n = 3 /\ {ReferenceValue(clients[i]) : i \in 1..n}
                            = {Num(600), Num(300), Num(100)})
                => /\ p[1].cumulative = Num(60)
                   /\ p[2].cumulative = Num(90)
                   /\ p[3].cumulative = Num(100)

\* C9 (as claimed): when the grand total of the reference values is 0, every value
\* of the Pareto series is 0.
C9_ZeroTotalGivesZeroSeries ==
    (npc = "analysed" /\ variant \in ParetoVariants /\ GrandTotal(clients) = Zero) =>
        \A i \in 1..Len(analysis.paretoData) : analysis.paretoData[i].cumulative = Zero

(***************************************************************************)
(* Claims about the opportunity cost (checked under Spec).                 *)
(***************************************************************************)

\* the snapshot's projection of (client, year); one the snapshot lacks is 0
ProjectionEntry(proj, id, y) ==
    LET row == Prop(proj, id)
        x == IF IsNullish(row) THEN UndefV ELSE Prop(row, y)
    IN  IF IsNumber(x) THEN x ELSE Zero

\* the client's historical sum in the table
HistoricalSum(table, id) ==
    LET c == CHOOSE c \in Range(table) : c.id = id
    IN  c.history["aggregate"]

\* C10: every client's opportunity cost is 0 or more, is 0 when the client's
\* projection for the target year is not 0, is the client's historical sum divided
\* by 5 when that projection is exactly 0, and the total opportunity cost is the sum
\* of the clients' costs.
C10_OpportunityCost ==
    (variant \in {"v26", "v23"} /\ Mounted) =>
        LET a == t20AnalysisIdle(variant, clients, db.projections, selectedYear)
            y == TargetYear(variant, selectedYear)
        IN  /\ {a.analysis[i].id : i \in 1..Len(a.analysis)} = ClientIds(variant)
            /\ Len(a.analysis) = Len(clients)
            /\ \A i \in 1..Len(a.analysis) :
                LET row == a.analysis[i]
                    val == ProjectionEntry(db.projections, row.id, y)
                IN  /\ JLe(Zero, row.opportunityCost)
                    /\ val # Zero => row.opportunityCost = Zero
                    /\ val = Zero
                        => row.opportunityCost
                             = JDiv(HistoricalSum(clients, row.id), Num(5))
            /\ a.totalOpportunityCost = Total(a.analysis, "opportunityCost")

\* C10 witness: with 2027 selected, one client has a projection of -1.5 for 2027 and
\* costs nothing, the other has none and costs a fifth of its historical sum, and
\* that fifth is the total.
C10_Witness ==
    /\ variant = "v26"
    /\ Mounted
    /\ selectedYear = "2027"
    /\ LET a == t20AnalysisIdle(variant, clients, db.projections, selectedYear)
       IN  /\ a.analysis[1].id = "c1"
           /\ a.analysis[1].valProj = Rat(-3, 2)
           /\ a.analysis[1].opportunityCost = Zero
           /\ a.analysis[2].opportunityCost = Rat(17279047, 250)
           /\ a.totalOpportunityCost = Rat(17279047, 250)

(***************************************************************************)
(* Seller attainment.                                                      *)
(***************************************************************************)
HasSellerViews(v) == v \in {"v26", "v23", "p2"}

\* the per-seller rows on screen: the annual ones, and in part_002 the monthly ones
SellerRows(v, rev, year, month) ==
    IF v = "p2"
    THEN Range(sellersMonthSummary(rev, year, month))
         \cup IF sellersYearSummaryThrows(rev, year) THEN {}
              ELSE Range(sellersYearSummary(rev, year))
    ELSE Range(sellerPerformance(rev, year))

\* realized/meta*100 for a positive target; 100 or 0 for a zero target
AttainmentRule(realizado, meta) ==
    IF JGt(meta, Zero) THEN JMul(JDiv(realizado, meta), Num(100))
    ELSE IF JGt(realizado, Zero) THEN Num(100) ELSE Zero

\* C11: every seller's attainment, monthly or annual, is realized/target*100 when the
\* target is positive, and for a zero target 100 if something was realized, else 0
C11_SellerAttainment ==
    (Mounted /\ HasSellerViews(variant)) =>
        \A row \in SellerRows(variant, db.revenue, selectedYear, selectedMonth) :
            row.atingimento = AttainmentRule(row.realizado, row.meta)

(***************************************************************************)
(* Best seller of the month.                                               *)
(***************************************************************************)
MonthRows == sellersMonthSummary(db.revenue, selectedYear, selectedMonth)
BestOfMonth == bestSellerMonth(MonthRows, Len(MonthRows))

\* C12: best-of-month is a seller whose realized value in the selected month is the
\* maximum over all sellers, and among the sellers sharing that maximum (all of them
\* when every value is 0) it is the first in the order of SELLERS
C12_BestOfMonth ==
    (Mounted /\ variant = "p2") =>
        \E j \in 1..Len(SELLERS) :
            /\ BestOfMonth = MonthRows[j]
            /\ \A k \in 1..Len(SELLERS) : JLe(MonthRows[k].realizado, MonthRows[j].realizado)
            /\ \A k \in 1..(j - 1) : JLt(MonthRows[k].realizado, MonthRows[j].realizado)

\* two sellers share a positive maximum and the first of them is shown
C12_Witness ==
    /\ Mounted
    /\ variant = "p2"
    /\ JGt(BestOfMonth.realizado, Zero)
    /\ \E j, k \in 1..Len(SELLERS) :
          /\ j < k
          /\ BestOfMonth.id = SELLERS[j]
          /\ JEq(MonthRows[k].realizado, MonthRows[j].realizado)

(***************************************************************************)
(* Client status (checked under SpecClients).                              *)
(***************************************************************************)
\* the client of the table an analysis row was computed from
ClientOf(table, id) == table[CHOOSE i \in 1..Len(table) : table[i].id = id]

\* the value of the year before the one under review
PriorValue(client) == HistoryValue(client, "2024")

IsChurned(client) ==
    JEq(ReferenceValue(client), Zero) /\ JGt(PriorValue(client), Zero)

\* C13: a client is CHURN exactly when its current-year value is 0 and its prior-year
\* value is greater than 0; no other status wins over it, and a client whose two
\* values are both 0 is not CHURN
C13_ChurnIffLost ==
    (npc = "analysed" /\ variant \in ParetoVariants) =>
        \A i \in 1..Len(analysis.analysis) :
            LET row == analysis.analysis[i]
            IN  (row.status = "CHURN") <=> IsChurned(ClientOf(clients, row.id))

(***************************************************************************)
(* Exceptions.                                                             *)
(***************************************************************************)
\* C14: nothing is raised: the first render of a hydrated snapshot and every later
\* one compute all their views, and no edit handler throws
C14_NothingRaises ==
    [][/\ Mounted => status' # "crashed"
       /\ status' \in {"hydrated", "ok"} => ~ViewThrows(variant, db', selectedYear')]_vars

(***************************************************************************)
(* Overall attainment.                                                     *)
(***************************************************************************)
\* C15: in every variant the overall attainment is the selected year's total
\* realized divided by the annual target 2180000, times 100
C15_OverallAttainment ==
    Mounted =>
        OverallAttainment(variant, db.revenue, selectedYear)
            = JMul(JDiv(TotalRealized(variant, db.revenue, selectedYear), Num(2180000)),
                   Num(100))

(***************************************************************************)
(* The advisory request (checked under SpecAdvisory).                      *)
(***************************************************************************)
\* every metric the snapshot shows for the selected year and month
Metrics(v, d, year, month, table) ==
    [monthly |-> monthlyData(v, d.revenue, year),
     total |-> TotalRealized(v, d.revenue, year),
     overall |-> OverallAttainment(v, d.revenue, year),
     sellers |-> IF v = "p2" THEN SellerRows(v, d.revenue, year, month) ELSE {},
     clients |-> ClientView(v, table),
     projections |-> d.projections]

\* a request is started or settled in this step
AdvisoryStep == inFlight' # inFlight

\* C16: starting an advisory request and settling it, with a reply or a failure,
\* change neither the snapshot nor any metric; while the request is pending the
\* edit fields stay usable, and an edit is applied and does not cancel the request
C16_AdvisoryLeavesSnapshot ==
    [][/\ (Mounted /\ AdvisoryStep) =>
            /\ db' = db
            /\ store' = store
            /\ selectedYear' = selectedYear
            /\ Metrics(variant, db', selectedYear', selectedMonth', clients')
                 = Metrics(variant, db, selectedYear, selectedMonth, clients)
       /\ (Mounted /\ isConsulting) => ~EditingDisabled(isConsulting)
       /\ (isConsulting /\ edits' = edits + 1) =>
            /\ status' = "ok"
            /\ isConsulting' /\ inFlight' = inFlight]_vars

(***************************************************************************)
(* Annual seller totals.                                                   *)
(***************************************************************************)
\* the annual per-seller rows of a snapshot
AnnualRows(v, rev, year) ==
    IF v = "p2" THEN sellersYearSummary(rev, year) ELSE sellerPerformance(rev, year)

\* the seller's entries of the twelve months of the year, added up
RECURSIVE SellerYearSum(_, _, _, _)
SellerYearSum(rev, year, s, i) ==
    IF i = 0 THEN Zero
    ELSE JAdd(SellerYearSum(rev, year, s, i - 1), SellerEntry(rev, year, MONTHS[i], s))

\* the seller's targets of the twelve months, added up
RECURSIVE SellerTargetSum(_, _)
SellerTargetSum(s, i) ==
    IF i = 0 THEN 0 ELSE SellerTargetSum(s, i - 1) + INDIVIDUAL_METAS[s][MONTHS[i]]

\* C17: a seller's annual realized value is the sum of the seller's entries over the
\* twelve calendar months of the selected year, the annual target the sum of the
\* twelve monthly targets, the attainment their ratio, and the four annual realized
\* values add up to the year's total realized
C17_AnnualRatioOfSums ==
    (Mounted /\ HasSellerViews(variant)) =>
        LET rows == AnnualRows(variant, db.revenue, selectedYear)
        IN  /\ \A j \in 1..Len(SELLERS) :
                LET realizado == SellerYearSum(db.revenue, selectedYear, SELLERS[j],
                                               Len(MONTHS))
                    meta == Num(SellerTargetSum(SELLERS[j], Len(MONTHS)))
                IN  /\ rows[j].realizado = realizado
                    /\ rows[j].meta = meta
                    /\ JGt(meta, Zero) =>
                          rows[j].atingimento = JMul(JDiv(realizado, meta), Num(100))
            /\ Total(rows, "realizado")
                  = TotalRealized(variant, db.revenue, selectedYear)

\* the growth rule of the variant: above a multiple of the historical average in v12
\* and v17, above a multiple of the prior year in part_002
IsStar(v, client) ==
    LET cur == ReferenceValue(client)
    IN  CASE v = "v12" -> JGt(cur, JMul(avgHist(client), Rat(6, 5)))
          [] v = "v17" -> JGt(cur, JMul(avgHist(client), Rat(23, 20)))
          [] OTHER -> JGt(cur, JMul(PriorValue(client), Rat(13, 10))) /\ JGt(cur, Zero)

\* the decline multiplier of the variant
DeclineMultiplier(v) == IF v = "p2" THEN Rat(7, 10) ELSE Rat(4, 5)

IsDeclining(v, client) ==
    LET cur == ReferenceValue(client)
    IN  JGt(cur, Zero) /\ JLt(cur, JMul(PriorValue(client), DeclineMultiplier(v)))

\* the label a variant gives the declining client
DeclineLabel(v) == IF v = "p2" THEN "ATTENTION" ELSE "DECREASE"

\* first match in the order CHURN, STAR, DECREASE/ATTENTION, STABLE
StatusByFirstMatch(v, client) ==
    IF IsChurned(client) THEN "CHURN"
    ELSE IF IsStar(v, client) THEN "STAR"
    ELSE IF IsDeclining(v, client) THEN DeclineLabel(v)
    ELSE "STABLE"

\* C18: every client has the status of the first rule it matches, in the order
\* CHURN, STAR, DECREASE/ATTENTION (a positive current-year value below the decline
\* multiplier times the prior-year value), STABLE
C18_StatusByFirstMatch ==
    (npc = "analysed" /\ variant \in ParetoVariants) =>
        \A i \in 1..Len(analysis.analysis) :
            LET row == analysis.analysis[i]
            IN  row.status = StatusByFirstMatch(variant, ClientOf(clients, row.id))

(***************************************************************************)
(* Order of the client analysis (checked under SpecClients).               *)
(***************************************************************************)
\* the value a variant orders its clients by: the consolidated total of the
\* aggregate-shaped table in v26 and v23, the 2025 value in the others
SortKey(v, client) ==
    IF v \in {"v26", "v23"} THEN NumberOrZero(client.history, "aggregate")
    ELSE ReferenceValue(client)

C20_IdleFollowsSelectedYear ==
    (variant \in {"v26", "v23"} /\ Mounted) =>
        LET a == t20AnalysisIdle(variant, clients, db.projections, selectedYear)
        IN  \A i \in 1..Len(a.analysis) :
                LET row == a.analysis[i]
                    idle == ProjectionEntry(db.projections, row.id, selectedYear) = Zero
                IN  /\ row.isOcioso <=> idle
                    /\ row.opportunityCost
                          = IF idle THEN JDiv(HistoricalSum(clients, row.id), Num(5))
                            ELSE Zero

(***************************************************************************)
(* The two history shapes (checked under SpecClients).                     *)
(***************************************************************************)
\* the variants that compute a historical annual average
AveragingVariants == {"v26", "v23", "v12", "v17"}

IsPerYear(client) == DOMAIN client.history = Range(HISTORICAL_YEARS)

\* the same client given as the single sum of its five per-year values
Aggregated(client) ==
    [id |-> client.id,
     history |-> [aggregate |-> historySum(client, Len(HISTORICAL_YEARS))]]

AggregatedTable(table) == [i \in 1..Len(table) |-> Aggregated(table[i])]

RowOf(rows, id) == rows[CHOOSE i \in 1..Len(rows) : rows[i].id = id]

\* the historical annual average a variant computes for the client of a row
AverageOf(v, row) ==
    IF v \in {"v26", "v23"} THEN row.mediaHistoricaAnual ELSE row.avgHist

\* C21: for a client given as five per-year values and the same client given as
\* their sum, a variant computes the same historical annual average, and the same
\* opportunity cost for the idle client
C21_BothHistoryShapes ==
    (npc = "analysed" /\ variant \in AveragingVariants
        /\ \A i \in 1..Len(clients) : IsPerYear(clients[i])) =>
        LET twin == ClientView(variant, AggregatedTable(clients)).analysis
        IN  \A i \in 1..Len(analysis.analysis) :
                LET row == analysis.analysis[i]
                    other == RowOf(twin, row.id)
                IN  /\ AverageOf(variant, row) = AverageOf(variant, other)
                    /\ variant \in {"v26", "v23"} =>
                          row.opportunityCost = other.opportunityCost

(***************************************************************************)
(* Warning flags.                                                          *)
(***************************************************************************)
\* the ceilings of a variant: 9 or 10 for logistics, 50 for goods
LogisticsCeiling(v) == IF v = "v23" THEN Num(9) ELSE Num(10)
GoodsCeiling == Num(50)

\* C22: a month is flagged warning exactly when its logistics ratio exceeds the
\* logistics ceiling or its goods ratio exceeds the goods ceiling, each ratio being
\* 0 when nothing was realized and each tested against its own ceiling
C22_WarningFlag ==
    (Mounted /\ HasOperational(variant) /\ ~ViewThrows(variant, db, selectedYear)) =>
        LET rows == costRows(variant, db, selectedYear)
        IN  \A i \in 1..Len(MONTHS) :
                LET realizado == EntrySum(db.revenue, selectedYear, MONTHS[i])
                    op == MonthOp(db.operational, selectedYear, MONTHS[i])
                    ratioLog == IF realizado = Zero THEN Zero
                                ELSE JMul(JDiv(logMes(op), realizado), Num(100))
                    ratioGoods == IF realizado = Zero THEN Zero
                                  ELSE JMul(JDiv(mercMes(op), realizado), Num(100))
                IN  rows[i].isWarning
                        <=> (JGt(ratioLog, LogisticsCeiling(variant))
                             \/ JGt(ratioGoods, GoodsCeiling))

(***************************************************************************)
(* Margin.                                                                 *)
(***************************************************************************)
\* the snapshot's cost entry of (year, month, field); an entry the snapshot lacks is 0
CostEntry(op, y, m, f) ==
    LET yr == Prop(op, y)
        mo == IF IsNullish(yr) THEN UndefV ELSE Prop(yr, m)
        x == IF IsNullish(mo) THEN UndefV ELSE Prop(mo, f)
    IN  IF IsNumber(x) THEN x ELSE Zero

\* realized revenue minus (zm + terceiro + correios + mercadoria)
MarginOf(d, y, m) ==
    JSub(EntrySum(d.revenue, y, m),
         JAdd(JAdd(JAdd(CostEntry(d.operational, y, m, "zm"),
                        CostEntry(d.operational, y, m, "terceiro")),
                   CostEntry(d.operational, y, m, "correios")),
              CostEntry(d.operational, y, m, "mercadoria")))

RECURSIVE MarginSum(_, _, _)
MarginSum(d, y, i) ==
    IF i = 0 THEN Zero ELSE JAdd(MarginSum(d, y, i - 1), MarginOf(d, y, MONTHS[i]))

\* the snapshots whose rows carry a monthly margin
HasMonthlyMargin(v) == v \in {"v17", "v23"}

ProjectionOf(proj, c, y) ==
    LET row == Prop(proj, c)
        x == IF IsNullish(row) THEN UndefV ELSE Prop(row, y)
    IN  IF IsNumber(x) THEN x ELSE Zero

IsObject(x) == ~IsNullish(x) /\ ~IsNumber(x)

\* every key of old, at every depth, is a key of new
RECURSIVE EntriesKept(_, _)
EntriesKept(old, new) ==
    IsObject(old) =>
        /\ IsObject(new)
        /\ \A key \in DOMAIN old :
              key \in DOMAIN new /\ EntriesKept(old[key], new[key])

SameRevenue(old, new, keep) ==
    \A y \in Range(YEARS), m \in Range(MONTHS), s \in Range(SELLERS) :
        <<y, m, s>> # keep => SellerEntry(new, y, m, s) = SellerEntry(old, y, m, s)

SameCosts(old, new, keep) ==
    \A y \in Range(YEARS), m \in Range(MONTHS), f \in Range(OP_FIELDS) :
        <<y, m, f>> # keep => CostEntry(new, y, m, f) = CostEntry(old, y, m, f)

SameProjections(old, new, keep) ==
    \A c \in ClientIds(variant), y \in Range(YEARS) :
        <<c, y>> # keep => ProjectionOf(new, c, y) = ProjectionOf(old, c, y)

\* the entry of a ledger that a path of keys leads to, undefined when there is none
EntryAt(ledger, k1, k2, k3) ==
    LET a == Prop(ledger, k1)
        b == IF IsObject(a) THEN Prop(a, k2) ELSE UndefV
    IN  IF IsObject(b) THEN Prop(b, k3) ELSE UndefV

RowEntryAt(ledger, k1, k2) ==
    LET a == Prop(ledger, k1) IN IF IsObject(a) THEN Prop(a, k2) ELSE UndefV

\* what a step that edits or selects a year does to the snapshot
EditStepFrame ==
    /\ \A m \in EditMonths, s \in EditSellers, t \in EditTexts :
         EditRevenueOf(m, s, t) =>
             /\ EntryAt(db'.revenue, selectedYear, m, s) = Normalize(variant, t)
             /\ SameRevenue(db.revenue, db'.revenue, <<selectedYear, m, s>>)
             /\ db'.operational = db.operational
             /\ db'.projections = db.projections
    /\ \A m \in EditMonths, f \in EditOpFields, t \in EditTexts :
         EditOperationalOf(m, f, t) =>
             /\ EntryAt(db'.operational, selectedYear, m, f) = Normalize(variant, t)
             /\ SameCosts(db.operational, db'.operational, <<selectedYear, m, f>>)
             /\ db'.revenue = db.revenue
             /\ db'.projections = db.projections
    /\ \A c \in ClientIds(variant), y \in YearChoices, t \in EditTexts :
         (y \in ProjectionEditYears(variant, selectedYear) /\ EditProjectionOf(c, y, t)) =>
             /\ RowEntryAt(db'.projections, c, y) = Normalize(variant, t)
             /\ SameProjections(db.projections, db'.projections, <<c, y>>)
             /\ db'.revenue = db.revenue
             /\ db'.operational = db.operational
    /\ (edits' # edits \/ selectedYear' # selectedYear) => EntriesKept(db, db')

\* C24: an edit sets exactly the entry it names to the normalized text and leaves
\* every other entry of the three ledgers as it was, and neither an edit nor a year
\* selection removes an entry from the snapshot
C24_EditSetsOneEntry == [][EditStepFrame]_vars

(***************************************************************************)
(* The projections of a first start.                                       *)
(***************************************************************************)
\* the first render of a browser that holds no payload
FirstStart == status = "boot" /\ store = AllItems(variant, Absent) /\ status' = "hydrated"

\* C25: hydration with no persisted payload gives a projections ledger that holds 0
\* for every client of the static list and every plannable year from 2026 to 2030
C25_ProjectionsStartAtZero ==
    [][FirstStart =>
          \A c \in ClientIds(variant), y \in Range(YEARS) :
              RowEntryAt(db'.projections, c, y) = Zero]_vars

(***************************************************************************)
(* Freshness of the memoized views.                                        *)
(***************************************************************************)
\* the view on the screen: the one computed when the dependencies last changed
Displayed(name) == memoView(variant, name, memo[name].reads, clients)

\* the view computed from scratch from the snapshot and the selection
FromScratch(name) ==
    memoView(variant, name,
             memoReads(variant, name, db, selectedYear, selectedMonth), clients)

\* C26: after every edit and every year or month selection each displayed view equals
\* the view computed from scratch from the current snapshot and selection
C26_NoStaleView ==
    (Mounted /\ ~ViewThrows(variant, db, selectedYear)) =>
        \A name \in MemoNames(variant) :
            \* a view computed from the same values is the same view
            \/ memo[name].reads
                  = memoReads(variant, name, db, selectedYear, selectedMonth)
            \/ Displayed(name) = FromScratch(name)

\* an edit of 2026 followed by the selection of 2027: the monthly series shown is
\* that of 2027 and differs from the one of 2026
C26_Witness ==
    /\ Mounted /\ edits > 0 /\ selectedYear = "2027"
    /\ ~ViewThrows(variant, db, selectedYear)
    /\ ~ViewThrows(variant, db, "2026")
    /\ monthlyData(variant, db.revenue, "2026") # monthlyData(variant, db.revenue, "2027")
    /\ \A name \in MemoNames(variant) : Displayed(name) = FromScratch(name)

(***************************************************************************)
(* The annual target.                                                      *)
(***************************************************************************)
\* the total target a snapshot of the application divides the year's revenue by
ReportedTarget(v) ==
    CASE v = "p2" -> runningTotalMeta(Len(TARGET_GOALS))
      [] v = "v12" -> totalMetaAnual
      [] OTHER -> metaAnualFixa

\* a ledger in which the realized value of every month of the year is the month's target
OnTarget(year) ==
    [y \in {year} |->
        [m \in Range(MONTHS) |->
            LET goal == monthGoal(m)
            IN  [s \in Range(SELLERS) |-> IF s = "syllas" THEN Num(goal.total) ELSE Zero]]]

\* C27: the sum of the 12 monthly target totals equals the reported total target, so
\* a year that realizes every monthly target has an overall attainment of exactly 100
C27_TargetsConsistent ==
    Mounted =>
        /\ runningTotalMeta(Len(TARGET_GOALS)) = ReportedTarget(variant)
        /\ OverallAttainment(variant, OnTarget(selectedYear), selectedYear) = Num(100)

(***************************************************************************)
(* Save and hydration (checked under SpecReload and SpecPersist).          *)
(***************************************************************************)
\* the step writes the snapshot to the store: the save button, or the effect of
\* part_002 that follows every render
Saves ==
    \/ Save
    \/ variant = "p2" /\ status' \in {"hydrated", "ok"}

OnlySaveWrites ==
    /\ (edits' # edits \/ selectedYear' # selectedYear) => store' = store
    /\ (status = "boot" /\ status' = "hydrated" /\ store = AllItems(variant, Absent)) =>
          db' = Skeleton(variant)

\* C29: only the explicit save action changes the persisted payload: an edit or a
\* year selection leaves it as it was, so a hydration after unsaved edits returns the
\* snapshot of the last save, or the skeleton if nothing was saved
C29_OnlySaveWrites == [][OnlySaveWrites]_vars

(***************************************************************************)
(* The advisory request (checked under SpecAdvisoryFair).                  *)
(***************************************************************************)
\* the trigger is enabled again: no request is pending and the flag is cleared
CanStartRequest == inFlight = 0 /\ ~isConsulting

\* C30: at most one advisory request is in flight at any time, and once a started
\* request settles the consulting flag is eventually cleared, so that a new request
\* can be started
C30_OneRequestAtATime ==
    /\ [](inFlight <= 1)
    /\ (inFlight > 0) ~> CanStartRequest

====
